---- MODULE Spec2Model ----
(***************************************************************************)
(* A model of the HOA identity provider (PexMor/hoa):                      *)
(*   - the credential lifecycle (hoa/services/auth_methods.py and the      *)
(*     /api/users and /api/admin endpoints that call it),                  *)
(*   - the signing-key lifecycle and the token service                     *)
(*     (hoa/services/jwt_service.py).                                      *)
(* Identifiers are positive integers; 0 stands for Python's None.          *)
(***************************************************************************)
EXTENDS Integers, FiniteSets, Sequences, TLC

\* ---------------------------------------------------------------- bounds
MaxUsers == 2          \* users ever created
MaxAuthMethods == 2    \* auth methods ever added
MaxKeys == 3           \* signing keys ever generated
MaxTime == 3           \* ticks the clock advances
TicksPerSecond == 2    \* resolution of the clock; JWT time claims are whole seconds
DefaultAccessTtl == 2  \* Settings.jwt_expiration_minutes, in ticks
DefaultRefreshTtl == 3 \* Settings.jwt_refresh_expiration_days, in ticks
MaxSignCount == 2      \* largest signature counter an authenticator reports
MaxChallenges == 2     \* ceremonies ever begun
MaxCredentials == 2    \* credential ids authenticators come up with

None == 0

VARIABLES
    users,                        \* table users: id -> [enabled, is_admin]
    next_user_id,                 \* number of user ids handed out so far
    auth_methods,                 \* table auth_methods: id -> row
    next_auth_id,                 \* number of auth method ids handed out so far
    require_auth_method_approval, \* Settings.require_auth_method_approval
    foreign_keys,                 \* whether the database behind Settings.database_url enforces foreign keys
    last,                         \* the answer to the last credential request
    dreq,                         \* in-flight requests of api/users.py, one per worker
    now,                          \* the clock, in ticks
    jwt_algorithm,                \* Settings.jwt_algorithm of the running process
    keys,                         \* table jwt_keys: key_id -> row
    next_key_id,                  \* number of key ids generated so far
    held,                         \* the issued token a client holds (the observed one)
    key_hist,                     \* per algorithm: first event and rotations
    jwt_last,                     \* the answer to the last token request
    kreq,                         \* in-flight token / rotation requests
    session,                      \* request.session of the client (pending ceremonies, login)
    next_challenge,               \* number of challenges generated so far
    web_last,                     \* the answer to the last WebAuthn request
    wreq,                         \* in-flight finish requests of the client
    sreq,                         \* in-flight update_passkey_sign_count calls
    consumed                      \* per ceremony kind and challenge: finish calls that succeeded

credState == <<users, next_user_id, auth_methods, next_auth_id,
               require_auth_method_approval, foreign_keys, last, dreq>>
jwtState == <<jwt_algorithm, keys, next_key_id, held, key_hist, jwt_last, kreq>>
webState == <<session, next_challenge, web_last, wreq, sreq, consumed>>
vars == <<credState, now, jwtState, webState>>

Procs == {"r1", "r2"}     \* two requests in flight at a time
UserIds == 1..MaxUsers
AuthIds == 1..MaxAuthMethods
Algorithms == {"HS256", "RS256"}          \* the values of Settings.jwt_algorithm
StartTime == TicksPerSecond               \* the clock starts at second 1
Deltas == {<<>>, <<-1>>, <<0>>, <<1>>}    \* expires_delta: None or ticks
TokenTypes == {"", "access", "refresh", "invalid_type"}   \* "" is None

\* ------------------------------------------------------------ the tables
\* models/user.py: the columns of User the credential operations read
UserRow(enabled, is_admin) == [enabled |-> enabled, is_admin |-> is_admin]

\* models/auth_method.py: the envelope columns of AuthMethod and, of the
\* single table's PasskeyAuth columns, credential_id, public_key, sign_count
\* and rp_id (None, and a counter of 0, unless set)
AuthMethodRow(user_id, type, enabled, requires_approval, approved) ==
    [user_id |-> user_id, type |-> type, enabled |-> enabled,
     requires_approval |-> requires_approval, approved |-> approved,
     approved_by |-> None, approved_at |-> None,
     credential_id |-> None, public_key |-> None, sign_count |-> 0, rp_id |-> ""]

\* db.add(row); db.commit() with a fresh uuid4 primary key
Insert(table, id, row) == [i \in DOMAIN table \cup {id} |-> IF i = id THEN row ELSE table[i]]

\* db.delete(row); db.commit()
Remove(table, id) == [i \in DOMAIN table \ {id} |-> table[i]]

\* rows: the rows a list request returned; changed: whether the request
\* altered the row it addressed
Answer(op, user, id, status) ==
    [op |-> op, user |-> user, id |-> id, status |-> status, rows |-> <<>>,
     changed |-> FALSE]

IdleReq == [pc |-> "idle", user |-> None, id |-> None, remaining_count |-> 0, status |-> "none"]

\* ------------------------------------------------- AuthMethodService reads
\* AuthMethodService.get_by_id: the row, or None
get_by_id(table, auth_method_id) == auth_method_id \in DOMAIN table

\* AuthMethodService.count_user_auth_methods(user_id) without a type filter
count_user_auth_methods(table, user_id) ==
    Cardinality({i \in DOMAIN table : /\ table[i].user_id = user_id
                                      /\ table[i].enabled
                                      /\ table[i].approved})

\* deps.require_user: the request is made by an existing, enabled user
require_user(u) == u \in DOMAIN users /\ users[u].enabled

\* deps.require_admin
require_admin(u) == require_user(u) /\ users[u].is_admin

\* ------------------------------------------------------------------ Init
\* the database right after init_db: no rows; the settings are loaded once
CredInit ==
    /\ users = <<>>
    /\ next_user_id = 0
    /\ auth_methods = <<>>
    /\ next_auth_id = 0
    /\ require_auth_method_approval \in BOOLEAN
    /\ foreign_keys \in BOOLEAN
    /\ last = Answer("none", None, None, "none")
    /\ dreq = [p \in Procs |-> IdleReq]

\* --------------------------------------------------------- user service
\* UserService.create(user_data)
CreateUser(enabled, is_admin) ==
    /\ next_user_id < MaxUsers
    /\ next_user_id' = next_user_id + 1
    /\ users' = Insert(users, next_user_id + 1, UserRow(enabled, is_admin))
    /\ last' = Answer("create_user", None, None, "obj")
    /\ UNCHANGED <<auth_methods, next_auth_id, require_auth_method_approval, foreign_keys, dreq, now, jwtState, webState>>

\* what the delete of a user does to the rows of auth_methods: the ORM
\* deletes the user's own rows (models/user.py:58-63, cascade="all,
\* delete-orphan"); approved_by -> users.id is ON DELETE SET NULL
\* (models/auth_method.py:59-62), which only an enforcing database carries out
CascadeDelete(table, user_id, enforced) ==
    LET kept == {i \in DOMAIN table : table[i].user_id # user_id}
    IN [i \in kept |->
          IF enforced /\ table[i].approved_by = user_id
          THEN [table[i] EXCEPT !.approved_by = None]
          ELSE table[i]]

\* UserService.delete(user_id): True if deleted, False if not found
delete_user(user_id) ==
    /\ IF user_id \notin DOMAIN users
       THEN /\ last' = Answer("delete_user", user_id, None, "False")
            /\ UNCHANGED <<users, auth_methods>>
       ELSE /\ users' = Remove(users, user_id)
            /\ auth_methods' = CascadeDelete(auth_methods, user_id, foreign_keys)
            /\ last' = Answer("delete_user", user_id, None, "True")
    /\ UNCHANGED <<next_user_id, next_auth_id, require_auth_method_approval, foreign_keys, dreq, now, jwtState, webState>>

\* ------------------------------------------------ AuthMethodService writes
\* db.add(row); db.commit() for a row of auth_methods. The caller names a
\* user id that was handed out; when that user is gone, the insert fails
\* with an IntegrityError if the database enforces auth_methods.user_id ->
\* users.id (models/auth_method.py:41-45) and goes through if it does not.
AddRow(op, row) ==
    /\ next_auth_id < MaxAuthMethods
    /\ row.user_id \in 1..next_user_id
    /\ IF row.user_id \notin DOMAIN users /\ foreign_keys
       THEN /\ last' = Answer(op, None, None, "IntegrityError")
            /\ UNCHANGED <<auth_methods, next_auth_id>>
       ELSE /\ next_auth_id' = next_auth_id + 1
            /\ auth_methods' = Insert(auth_methods, next_auth_id + 1, row)
            /\ last' = Answer(op, None, None, "obj")
    /\ UNCHANGED <<users, next_user_id, require_auth_method_approval, foreign_keys, dreq, now, jwtState, webState>>

\* AuthMethodService.add_passkey(user_id, ..., requires_approval=override);
\* override is <<>> for None and <<b>> for the boolean b
add_passkey(user_id, override) ==
    LET requires_approval == IF override = <<>> THEN require_auth_method_approval
                             ELSE override[1]
    IN AddRow("add_passkey",
              AuthMethodRow(user_id, "passkey", TRUE, requires_approval, ~requires_approval))

\* faulty variant of add_password: a password that needs approval starts disabled
add_password_disabled(user_id) ==
    AddRow("add_password",
           AuthMethodRow(user_id, "password", ~require_auth_method_approval,
                         require_auth_method_approval, ~require_auth_method_approval))

\* AuthMethodService.add_password(user_id, password)
add_password(user_id) ==
    AddRow("add_password",
           AuthMethodRow(user_id, "password", TRUE, require_auth_method_approval,
                         ~require_auth_method_approval))

\* AuthMethodService.add_token(user_id, token, description)
add_token(user_id) ==
    AddRow("add_token", AuthMethodRow(user_id, "token", TRUE, FALSE, TRUE))

\* faulty variant of approve: the approval time is not recorded
approve_without_time(auth_method_id, approved_by, approved) ==
    /\ require_admin(approved_by)
    /\ IF ~get_by_id(auth_methods, auth_method_id)
       THEN /\ last' = Answer("approve", None, None, "404")
            /\ UNCHANGED auth_methods
       ELSE /\ auth_methods' = [auth_methods EXCEPT ![auth_method_id] =
                    [@ EXCEPT !.approved = approved,
                              !.approved_by = IF approved THEN approved_by ELSE None]]
            /\ last' = Answer("approve", None, None, "200")
    /\ UNCHANGED <<users, next_user_id, next_auth_id, require_auth_method_approval, foreign_keys, dreq, now, jwtState, webState>>

\* AuthMethodService.approve(auth_method_id, approved_by, approved), reached
\* through POST /api/admin/auth-methods/{id}/approve by an admin
approve(auth_method_id, approved_by, approved) ==
    /\ require_admin(approved_by)
    /\ IF ~get_by_id(auth_methods, auth_method_id)
       THEN /\ last' = Answer("approve", None, None, "404")
            /\ UNCHANGED auth_methods
       ELSE /\ auth_methods' = [auth_methods EXCEPT ![auth_method_id] =
                    [@ EXCEPT !.approved = approved,
                              !.approved_by = IF approved THEN approved_by ELSE None,
                              !.approved_at = IF approved THEN now ELSE None]]
            /\ last' = Answer("approve", None, None, "200")
    /\ UNCHANGED <<users, next_user_id, next_auth_id, require_auth_method_approval, foreign_keys, dreq, now, jwtState, webState>>

\* faulty variant of toggle_enabled: the flag is flipped, whatever is asked
toggle_enabled_flip(admin, auth_method_id, enabled) ==
    /\ require_admin(admin)
    /\ IF ~get_by_id(auth_methods, auth_method_id)
       THEN /\ last' = Answer("toggle_enabled", None, None, "404")
            /\ UNCHANGED auth_methods
       ELSE /\ auth_methods' = [auth_methods EXCEPT ![auth_method_id].enabled = ~@]
            /\ last' = [Answer("toggle_enabled", None, None, "200")
                          EXCEPT !.changed = TRUE]
    /\ UNCHANGED <<users, next_user_id, next_auth_id, require_auth_method_approval, foreign_keys, dreq, now, jwtState, webState>>

\* variant of toggle_enabled that refuses to disable the owner's last
\* enabled-and-approved auth method (what the service does not do)
toggle_enabled_with_floor(admin, auth_method_id, enabled) ==
    /\ require_admin(admin)
    /\ IF ~get_by_id(auth_methods, auth_method_id)
       THEN /\ last' = Answer("toggle_enabled", None, None, "404")
            /\ UNCHANGED auth_methods
       ELSE IF /\ ~enabled
               /\ count_user_auth_methods(
                      [auth_methods EXCEPT ![auth_method_id].enabled = FALSE],
                      auth_methods[auth_method_id].user_id) = 0
       THEN /\ last' = Answer("toggle_enabled", None, None, "PreconditionError")
            /\ UNCHANGED auth_methods
       ELSE /\ auth_methods' = [auth_methods EXCEPT ![auth_method_id].enabled = enabled]
            /\ last' = [Answer("toggle_enabled", None, None, "200")
                          EXCEPT !.changed = auth_methods[auth_method_id].enabled # enabled]
    /\ UNCHANGED <<users, next_user_id, next_auth_id, require_auth_method_approval, foreign_keys, dreq, now, jwtState, webState>>

\* AuthMethodService.toggle_enabled(auth_method_id, enabled), reached through
\* POST /api/admin/auth-methods/{id}/toggle by an admin
toggle_enabled(admin, auth_method_id, enabled) ==
    /\ require_admin(admin)
    /\ IF ~get_by_id(auth_methods, auth_method_id)
       THEN /\ last' = Answer("toggle_enabled", None, None, "404")
            /\ UNCHANGED auth_methods
       ELSE /\ auth_methods' = [auth_methods EXCEPT ![auth_method_id].enabled = enabled]
            /\ last' = [Answer("toggle_enabled", None, None, "200")
                          EXCEPT !.changed = auth_methods[auth_method_id].enabled # enabled]
    /\ UNCHANGED <<users, next_user_id, next_auth_id, require_auth_method_approval, foreign_keys, dreq, now, jwtState, webState>>

\* variant of delete that refuses to remove the owner's last enabled-and-approved
\* auth method (what the service does not do)
delete_with_floor(auth_method_id) ==
    /\ IF ~get_by_id(auth_methods, auth_method_id)
       THEN /\ last' = Answer("delete", None, auth_method_id, "False")
            /\ UNCHANGED auth_methods
       ELSE IF count_user_auth_methods(Remove(auth_methods, auth_method_id),
                                       auth_methods[auth_method_id].user_id) = 0
       THEN /\ last' = Answer("delete", auth_methods[auth_method_id].user_id,
                              auth_method_id, "PreconditionError")
            /\ UNCHANGED auth_methods
       ELSE /\ auth_methods' = Remove(auth_methods, auth_method_id)
            /\ last' = Answer("delete", auth_methods[auth_method_id].user_id,
                              auth_method_id, "True")
    /\ UNCHANGED <<users, next_user_id, next_auth_id, require_auth_method_approval, foreign_keys, dreq, now, jwtState, webState>>

\* AuthMethodService.delete(auth_method_id): True if deleted, False if not found
delete(auth_method_id) ==
    /\ IF ~get_by_id(auth_methods, auth_method_id)
       THEN /\ last' = Answer("delete", None, auth_method_id, "False")
            /\ UNCHANGED auth_methods
       ELSE /\ auth_methods' = Remove(auth_methods, auth_method_id)
            /\ last' = Answer("delete", auth_methods[auth_method_id].user_id,
                              auth_method_id, "True")
    /\ UNCHANGED <<users, next_user_id, next_auth_id, require_auth_method_approval, foreign_keys, dreq, now, jwtState, webState>>

\* auth_methods.py:319-322: the filter of get_pending_approvals
PendingIds(table) ==
    {i \in DOMAIN table : table[i].requires_approval /\ ~table[i].approved}

\* .limit(limit).all() of a query without ORDER BY over the rows ids: as many
\* rows as the limit allows, in whatever order the database produces them
LimitAll(ids, limit) ==
    LET n == IF limit < Cardinality(ids) THEN limit ELSE Cardinality(ids)
    IN {rows \in [1..n -> ids] : \A j, k \in 1..n : rows[j] = rows[k] => j = k}

\* AuthMethodService.get_pending_approvals(limit), reached through
\* GET /api/admin/auth-methods/pending
get_pending_approvals(limit) ==
    /\ \E rows \in LimitAll(PendingIds(auth_methods), limit) :
         last' = [Answer("get_pending_approvals", None, None, "200") EXCEPT !.rows = rows]
    /\ UNCHANGED <<users, next_user_id, auth_methods, next_auth_id, require_auth_method_approval, foreign_keys, dreq, now, jwtState, webState>>

\* faulty variant of max: the reported value is stored as it comes
max_overwrite(a, b) == b

\* Python's max(a, b)
max(a, b) == IF a >= b THEN a ELSE b

\* the row db.query(PasskeyAuth).filter(PasskeyAuth.id == id).first() finds
get_passkey(table, auth_method_id) ==
    auth_method_id \in DOMAIN table /\ table[auth_method_id].type = "passkey"

\* AuthMethodService.update_passkey_sign_count(auth_method_id, new_sign_count),
\* run as one transaction
update_passkey_sign_count(auth_method_id, new_sign_count) ==
    /\ IF ~get_passkey(auth_methods, auth_method_id)
       THEN /\ last' = Answer("update_passkey_sign_count", None, auth_method_id, "None")
            /\ UNCHANGED auth_methods
       ELSE /\ auth_methods' = [auth_methods EXCEPT ![auth_method_id].sign_count =
                                    max(@, new_sign_count)]
            /\ last' = Answer("update_passkey_sign_count", None, auth_method_id, "obj")
    /\ UNCHANGED <<users, next_user_id, next_auth_id, require_auth_method_approval, foreign_keys, dreq,
                   now, jwtState, webState>>

\* The same call, one database round trip at a time (auth_methods.py:277-286).
\* Each caller has its own Session; the SELECT takes no lock.
IdleSignReq == [pc |-> "idle", id |-> None, new_sign_count |-> 0, sign_count |-> 0]

\* auth_methods.py:277-282: load the passkey
SignRead(p, auth_method_id, new_sign_count) ==
    /\ sreq[p].pc = "idle"
    /\ sreq' = [sreq EXCEPT ![p] =
          IF ~get_passkey(auth_methods, auth_method_id)
          THEN [pc |-> "done", id |-> None, new_sign_count |-> new_sign_count,
                sign_count |-> 0]
          ELSE [pc |-> "write", id |-> auth_method_id, new_sign_count |-> new_sign_count,
                sign_count |-> auth_methods[auth_method_id].sign_count]]
    /\ UNCHANGED <<credState, now, jwtState, session, next_challenge, web_last, wreq, consumed>>

\* auth_methods.py:284-285: passkey.sign_count = max(loaded, new); commit.
\* The UPDATE is sent only when the attribute got another value than loaded.
SignWrite(p) ==
    /\ sreq[p].pc = "write"
    /\ LET value == max(sreq[p].sign_count, sreq[p].new_sign_count)
       IN auth_methods' =
            IF value # sreq[p].sign_count /\ sreq[p].id \in DOMAIN auth_methods
            THEN [auth_methods EXCEPT ![sreq[p].id].sign_count = value]
            ELSE auth_methods
    /\ sreq' = [sreq EXCEPT ![p] = [@ EXCEPT !.pc = "done"]]
    /\ UNCHANGED <<users, next_user_id, next_auth_id, require_auth_method_approval, foreign_keys, last,
                   dreq, now, jwtState, session, next_challenge, web_last, wreq, consumed>>

\* the call returns; the worker is free for the next one
SignReturn(p) ==
    /\ sreq[p].pc = "done"
    /\ sreq' = [sreq EXCEPT ![p] = IdleSignReq]
    /\ UNCHANGED <<credState, now, jwtState, session, next_challenge, web_last, wreq, consumed>>

\* ------------------------------------------------------ /api/users/me/...
\* faulty variant of FloorRejects: the comparison is off by one
FloorRejectsOffByOne(remaining_count) == remaining_count <= 0

\* The floor test of delete_my_auth_method (users.py:84-85): reject when the
\* requester's count of enabled-and-approved auth methods is <= 1
FloorRejects(remaining_count) == remaining_count <= 1

\* faulty variant of delete_my_auth_method: the owner of the row is not compared
delete_my_auth_method_any_owner(current_user, auth_method_id) ==
    /\ require_user(current_user)
    /\ IF ~get_by_id(auth_methods, auth_method_id)
       THEN /\ last' = Answer("delete_my_auth_method", current_user, auth_method_id, "404")
            /\ UNCHANGED auth_methods
       ELSE IF FloorRejects(count_user_auth_methods(auth_methods, current_user))
       THEN /\ last' = Answer("delete_my_auth_method", current_user, auth_method_id, "400")
            /\ UNCHANGED auth_methods
       ELSE /\ auth_methods' = Remove(auth_methods, auth_method_id)
            /\ last' = Answer("delete_my_auth_method", current_user, auth_method_id, "200")
    /\ UNCHANGED <<users, next_user_id, next_auth_id, require_auth_method_approval, foreign_keys, dreq, now, jwtState, webState>>

\* DELETE /api/users/me/auth-methods/{auth_method_id}, run as one transaction
delete_my_auth_method(current_user, auth_method_id) ==
    /\ require_user(current_user)
    /\ IF \/ ~get_by_id(auth_methods, auth_method_id)
          \/ auth_methods[auth_method_id].user_id # current_user
       THEN /\ last' = Answer("delete_my_auth_method", current_user, auth_method_id, "404")
            /\ UNCHANGED auth_methods
       ELSE IF FloorRejects(count_user_auth_methods(auth_methods, current_user))
       THEN /\ last' = Answer("delete_my_auth_method", current_user, auth_method_id, "400")
            /\ UNCHANGED auth_methods
       ELSE /\ auth_methods' = Remove(auth_methods, auth_method_id)
            /\ last' = Answer("delete_my_auth_method", current_user, auth_method_id, "200")
    /\ UNCHANGED <<users, next_user_id, next_auth_id, require_auth_method_approval, foreign_keys, dreq, now, jwtState, webState>>



\* The same request, one database round trip at a time (users.py:76-91).
\* Each request has its own Session; nothing is locked between the reads
\* and the DELETE, so the steps of two requests interleave freely.

\* users.py:76-81: look the auth method up and check that the requester owns it
DeleteBegin(p, current_user, auth_method_id) ==
    /\ dreq[p].pc = "idle"
    /\ require_user(current_user)
    /\ dreq' = [dreq EXCEPT ![p] =
          IF \/ ~get_by_id(auth_methods, auth_method_id)
             \/ auth_methods[auth_method_id].user_id # current_user
          THEN [pc |-> "done", user |-> current_user, id |-> auth_method_id,
                remaining_count |-> 0, status |-> "404"]
          ELSE [pc |-> "count", user |-> current_user, id |-> auth_method_id,
                remaining_count |-> 0, status |-> "none"]]
    /\ UNCHANGED <<users, next_user_id, auth_methods, next_auth_id,
                   require_auth_method_approval, foreign_keys, last, now, jwtState, webState>>

\* users.py:84-89: count the enabled-and-approved auth methods and test the floor
DeleteCount(p) ==
    /\ dreq[p].pc = "count"
    /\ LET remaining_count == count_user_auth_methods(auth_methods, dreq[p].user)
       IN dreq' = [dreq EXCEPT ![p] =
            IF FloorRejects(remaining_count)
            THEN [@ EXCEPT !.pc = "done", !.remaining_count = remaining_count,
                           !.status = "400"]
            ELSE [@ EXCEPT !.pc = "delete", !.remaining_count = remaining_count]]
    /\ UNCHANGED <<users, next_user_id, auth_methods, next_auth_id,
                   require_auth_method_approval, foreign_keys, last, now, jwtState, webState>>

\* users.py:91-93: AuthMethodService.delete (its result is ignored) and commit
DeleteCommit(p) ==
    /\ dreq[p].pc = "delete"
    /\ auth_methods' = IF get_by_id(auth_methods, dreq[p].id)
                       THEN Remove(auth_methods, dreq[p].id)
                       ELSE auth_methods
    /\ dreq' = [dreq EXCEPT ![p] = [@ EXCEPT !.pc = "done", !.status = "200"]]
    /\ UNCHANGED <<users, next_user_id, next_auth_id,
                   require_auth_method_approval, foreign_keys, last, now, jwtState, webState>>

\* the response is sent; the worker is free for the next request
DeleteReturn(p) ==
    /\ dreq[p].pc = "done"
    /\ dreq' = [dreq EXCEPT ![p] = IdleReq]
    /\ last' = Answer("delete_my_auth_method", dreq[p].user, dreq[p].id, dreq[p].status)
    /\ UNCHANGED <<users, next_user_id, auth_methods, next_auth_id,
                   require_auth_method_approval, foreign_keys, now, jwtState, webState>>

\* =================================================== hoa/services/jwt_service.py
\* models/session.py: a row of jwt_keys. The key material is identified by
\* the id of the key it was generated for: a fresh pair or secret per key.
NewKey(algorithm, key_id) ==
    [algorithm |-> algorithm,
     public_key |-> IF algorithm = "RS256" THEN key_id ELSE None,
     private_key_encrypted |-> key_id,
     is_active |-> TRUE, expires_at |-> None, rotated_at |-> None]

\* faulty variant of ActiveKeyIds: the is_active filter is missing
ActiveKeyIdsAnyStatus(table, algorithm) ==
    {k \in DOMAIN table : table[k].algorithm = algorithm}

\* jwt_service.py:42-45 and 267-270: the active keys of the algorithm
ActiveKeyIds(table, algorithm) ==
    {k \in DOMAIN table : table[k].is_active /\ table[k].algorithm = algorithm}

\* .first() of that query: None when there is no row, else any one row
\* (the query has no ORDER BY)
FirstActive(table, algorithm) ==
    IF ActiveKeyIds(table, algorithm) = {} THEN {None} ELSE ActiveKeyIds(table, algorithm)

\* faulty variant of KeyUsable: the key found is never reused
KeyUsableNever(table, key, t) == FALSE

\* jwt_service.py:47: the key found can still be used
KeyUsable(table, key, t) ==
    key # None /\ (table[key].expires_at = None \/ table[key].expires_at > t)

\* faulty variant of Deactivate: the rotation time is not recorded
DeactivateNoStamp(table, key, t) ==
    [table EXCEPT ![key] = [@ EXCEPT !.is_active = FALSE]]

\* jwt_service.py:93-95 and 272-274: key.is_active = False; key.rotated_at = now
Deactivate(table, key, t) ==
    [table EXCEPT ![key] = [@ EXCEPT !.is_active = FALSE, !.rotated_at = t]]

\* jwt_service.py:50-99: generate a key, deactivate the one found, insert, commit
InsertNewKey(table, algorithm, key, new_id, t) ==
    Insert(IF key # None /\ key \in DOMAIN table THEN Deactivate(table, key, t) ELSE table,
           new_id, NewKey(algorithm, new_id))

\* JWTService._get_or_create_key, given the row its query returned
get_or_create_key(table, algorithm, key, new_id, t) ==
    IF KeyUsable(table, key, t)
    THEN [keys |-> table, key_id |-> key, created |-> FALSE]
    ELSE [keys |-> InsertNewKey(table, algorithm, key, new_id, t),
          key_id |-> new_id, created |-> TRUE]

\* str(user_id) as put into the "sub" claim
str(user_id) == <<"uuid", user_id>>

\* jwt.encode turns a datetime claim into whole seconds (timegm)
Seconds(t) == t \div TicksPerSecond

\* the signature of a token: made with the key material over header and payload
Sign(material, alg, kid, sub, exp, iat, type) == <<material, alg, kid, sub, exp, iat, type>>

\* faulty variant of jwt_encode: the subject written is not the one asked for
jwt_encode_wrong_sub(sub, exp, iat, type, table, key_id, algorithm) ==
    [alg |-> algorithm, kid |-> key_id, sub |-> <<"uuid", None>>, exp |-> Seconds(exp),
     iat |-> Seconds(iat), type |-> type,
     sig |-> Sign(table[key_id].private_key_encrypted, algorithm, key_id,
                  <<"uuid", None>>, Seconds(exp), Seconds(iat), type)]

\* jwt.encode(payload, key.private_key_encrypted, algorithm, headers={"kid": key_id})
jwt_encode(sub, exp, iat, type, table, key_id, algorithm) ==
    [alg |-> algorithm, kid |-> key_id, sub |-> sub, exp |-> Seconds(exp),
     iat |-> Seconds(iat), type |-> type,
     sig |-> Sign(table[key_id].private_key_encrypted, algorithm, key_id,
                  sub, Seconds(exp), Seconds(iat), type)]

\* faulty variant of ExpiresAt: a zero expires_delta is taken for "not given"
ExpiresAtFalsyDelta(t, expires_delta, default) ==
    t + (IF expires_delta = <<>> \/ expires_delta = <<0>> THEN default ELSE expires_delta[1])

\* jwt_service.py:120-123 and 158-161: the expiry of a new token
ExpiresAt(t, expires_delta, default) ==
    t + (IF expires_delta = <<>> THEN default ELSE expires_delta[1])

NoPayload == [valid |-> FALSE, sub |-> <<>>, type |-> "", exp |-> 0, iat |-> 0]

\* the payload jwt.decode returns
PayloadOf(token) ==
    [valid |-> TRUE, sub |-> token.sub, type |-> token.type, exp |-> token.exp,
     iat |-> token.iat]

\* faulty variant of KeyForKid: only an active key is found
KeyForKidActiveOnly(table, kid, algorithm) ==
    {k \in DOMAIN table : k = kid /\ table[k].algorithm = algorithm /\ table[k].is_active}

\* jwt_service.py:199-202: the key with that key id and the service's algorithm
KeyForKid(table, kid, algorithm) ==
    {k \in DOMAIN table : k = kid /\ table[k].algorithm = algorithm}

\* jwt.decode(token, material, algorithms=[algorithm]) accepts the token:
\* header algorithm allowed, signature made with the matching key material,
\* "exp" in the future (exp <= now raises ExpiredSignatureError), "iat" not
\* in the future
jwt_decode_ok(token, material, algorithm, t) ==
    /\ token.alg = algorithm
    /\ material # None
    /\ token.sig = Sign(material, token.alg, token.kid, token.sub, token.exp,
                        token.iat, token.type)
    /\ ~(token.exp * TicksPerSecond <= t)
    /\ ~(token.iat * TicksPerSecond > t)

\* the exception jwt.decode raises when it does not accept the token
jwt_decode_error(token, material, algorithm, t) ==
    IF token.alg # algorithm THEN "InvalidAlgorithmError"
    ELSE IF material = None THEN "InvalidKeyError"
    ELSE IF token.sig # Sign(material, token.alg, token.kid, token.sub, token.exp,
                             token.iat, token.type)
    THEN "InvalidSignatureError"
    ELSE IF token.iat * TicksPerSecond > t THEN "ImmatureSignatureError"
    ELSE "ExpiredSignatureError"

\* an exception on its way out of the try block of verify_token
Raised(exception) ==
    [valid |-> FALSE, sub |-> <<>>, type |-> exception, exp |-> 0, iat |-> 0]

\* jwt.get_unverified_header(token) can read a header (else DecodeError)
HeaderReadable(token) == token.alg # ""

\* faulty variant of TypeRejected: the "type" claim is never looked at
TypeRejectedNever(token_type, type) == FALSE

\* the test on the "type" claim, jwt_service.py:215
TypeRejected(token_type, type) == token_type # "" /\ type # token_type

\* the try block of verify_token, jwt_service.py:190-218
verify_token_try(table, algorithm, token, token_type, t) ==
    IF ~HeaderReadable(token) THEN Raised("DecodeError")
    ELSE IF token.kid = None THEN NoPayload
    ELSE IF KeyForKid(table, token.kid, algorithm) = {} THEN NoPayload
    ELSE LET key == table[token.kid]
             material == IF algorithm = "HS256" THEN key.private_key_encrypted
                         ELSE key.public_key
         IN IF ~jwt_decode_ok(token, material, algorithm, t)
            THEN Raised(jwt_decode_error(token, material, algorithm, t))
            ELSE IF TypeRejected(token_type, token.type) THEN NoPayload
            ELSE PayloadOf(token)

\* faulty variant of except_Exception: only an expired token is caught
except_ExpiredSignatureError(result) ==
    IF result = Raised("ExpiredSignatureError") THEN NoPayload ELSE result

\* the except clauses of verify_token, jwt_service.py:220-225: every
\* exception is turned into None
except_Exception(result) == IF result.valid THEN result ELSE NoPayload

\* JWTService.verify_token(token, token_type) at time t
verify_token(table, algorithm, token, token_type, t) ==
    except_Exception(verify_token_try(table, algorithm, token, token_type, t))

\* JWTService.validate_token(token, token_type): alias of verify_token
validate_token(table, algorithm, token, token_type, t) ==
    verify_token(table, algorithm, token, token_type, t)

NoIssued == [token |-> [alg |-> "", kid |-> None, sub |-> <<>>, exp |-> 0, iat |-> 0,
                        type |-> "", sig |-> <<>>],
             user_id |-> None, kind |-> ""]

\* the answer to a token request: what was asked (op, the token presented
\* and the kind expected) and what came back
JwtAnswer(op, key_id, token_type, payload) ==
    [op |-> op, key_id |-> key_id, token_type |-> token_type, payload |-> payload,
     presented |-> NoIssued.token, status |-> "",
     access_token |-> NoIssued.token, refresh_token |-> NoIssued.token,
     jwks |-> <<>>]

IdleKeyReq == [pc |-> "idle", op |-> "", key |-> None, result |-> None]

NoHist == [first |-> "none", rotations |-> 0]

\* no key rows yet; the settings are loaded once per process
JwtInit ==
    /\ jwt_algorithm \in Algorithms
    /\ keys = <<>>
    /\ next_key_id = 0
    /\ held = NoIssued
    /\ key_hist = [a \in Algorithms |-> NoHist]
    /\ jwt_last = JwtAnswer("none", None, "", NoPayload)
    /\ kreq = [p \in Procs |-> IdleKeyReq]

\* what the history of an algorithm becomes after an event
Noted(hist, event) ==
    [first |-> IF hist.first = "none" THEN event ELSE hist.first,
     rotations |-> IF event = "rotate" THEN hist.rotations + 1 ELSE hist.rotations]

\* the process is restarted with another configured algorithm
\* (config.py: load_settings fills the global Settings instance once)
Restart(algorithm) ==
    /\ jwt_algorithm # algorithm
    /\ jwt_algorithm' = algorithm
    /\ jwt_last' = JwtAnswer("restart", None, "", NoPayload)
    /\ UNCHANGED <<credState, webState, now, keys, next_key_id, held, key_hist, kreq>>

\* create_access_token / create_refresh_token, run as one transaction.
\* The client holds the token it was handed last.
CreateToken(op, type, default, user_id, expires_delta) ==
    /\ \E key \in FirstActive(keys, jwt_algorithm) :
         LET r == get_or_create_key(keys, jwt_algorithm, key, next_key_id + 1, now)
             expires_at == ExpiresAt(now, expires_delta, default)
             token == jwt_encode(str(user_id), expires_at, now, type, r.keys,
                                 r.key_id, jwt_algorithm)
         IN /\ r.created => next_key_id < MaxKeys
            /\ keys' = r.keys
            /\ next_key_id' = IF r.created THEN next_key_id + 1 ELSE next_key_id
            /\ held' = [token |-> token, user_id |-> user_id, kind |-> type]
            /\ jwt_last' = JwtAnswer(op, r.key_id, "", NoPayload)
    /\ key_hist' = [key_hist EXCEPT ![jwt_algorithm] = Noted(@, "issue")]
    /\ UNCHANGED <<credState, webState, now, jwt_algorithm, kreq>>

\* JWTService.create_access_token(user_id, expires_delta)
create_access_token(user_id, expires_delta) ==
    CreateToken("create_access_token", "access", DefaultAccessTtl, user_id, expires_delta)

\* JWTService.create_refresh_token(user_id, expires_delta)
create_refresh_token(user_id, expires_delta) ==
    CreateToken("create_refresh_token", "refresh", DefaultRefreshTtl, user_id, expires_delta)

\* JWTService.validate_token(token, token_type) on the token the client holds
ValidateToken(token_type) ==
    /\ held # NoIssued
    /\ jwt_last' = JwtAnswer("validate_token", None, token_type,
                             validate_token(keys, jwt_algorithm, held.token, token_type, now))
    /\ UNCHANGED <<credState, webState, now, jwt_algorithm, keys, next_key_id, held, key_hist, kreq>>

\* the ways a client can alter the token it holds before presenting it
ForgeKinds == {"genuine", "malformed", "no_kid", "unknown_kid", "other_kid",
               "other_alg", "bad_signature", "other_type"}

\* the token presented: the one held, or a forgery made from it without any
\* key of the server
Forge(token, kind) ==
    CASE kind = "genuine" -> token
      [] kind = "malformed" -> NoIssued.token
      [] kind = "no_kid" -> [token EXCEPT !.kid = None]
      [] kind = "unknown_kid" -> [token EXCEPT !.kid = MaxKeys + 1]
      [] kind = "other_kid" -> [token EXCEPT !.kid = 1 + (token.kid % MaxKeys)]
      [] kind = "other_alg" ->
            [token EXCEPT !.alg = CHOOSE a \in Algorithms : a # token.alg]
      [] kind = "bad_signature" ->
            [token EXCEPT !.sig = Sign(MaxKeys + 1, token.alg, token.kid, token.sub,
                                       token.exp, token.iat, token.type)]
      [] kind = "other_type" ->
            [token EXCEPT !.type = IF token.type = "access" THEN "refresh" ELSE "access"]

\* JWTService.verify_token(token, token_type) on a token of the client's making
VerifyPresented(kind, token_type) ==
    /\ held # NoIssued
    /\ jwt_last' = [JwtAnswer("verify_token", None, token_type,
                              verify_token(keys, jwt_algorithm, Forge(held.token, kind),
                                           token_type, now))
                       EXCEPT !.presented = Forge(held.token, kind)]
    /\ UNCHANGED <<credState, webState, now, jwt_algorithm, keys, next_key_id,
                   held, key_hist, kreq>>

\* JWTService.get_user_id_from_token(token): validate_token with its default
\* token_type "access", then UUID(payload["sub"])
get_user_id_from_token(table, algorithm, token, t) ==
    LET payload == validate_token(table, algorithm, token, "access", t)
    IN IF ~payload.valid THEN None
       ELSE IF Len(payload.sub) # 2 THEN None
       ELSE payload.sub[2]

\* POST /api/m2m/token/refresh with the token the client holds as
\* data.refresh_token; the client goes on with one of the two new tokens
refresh_jwt_token ==
    /\ held # NoIssued
    /\ LET user_id == get_user_id_from_token(keys, jwt_algorithm, held.token, now)
       IN IF user_id = None
          THEN /\ jwt_last' = [JwtAnswer("refresh_jwt_token", None, "", NoPayload)
                                  EXCEPT !.presented = held.token, !.status = "401"]
               /\ UNCHANGED <<keys, next_key_id, held, key_hist>>
          ELSE \E key \in FirstActive(keys, jwt_algorithm) :
                 LET r == get_or_create_key(keys, jwt_algorithm, key, next_key_id + 1, now)
                     access_token ==
                         jwt_encode(str(user_id), ExpiresAt(now, <<>>, DefaultAccessTtl),
                                    now, "access", r.keys, r.key_id, jwt_algorithm)
                     refresh_token ==
                         jwt_encode(str(user_id), ExpiresAt(now, <<>>, DefaultRefreshTtl),
                                    now, "refresh", r.keys, r.key_id, jwt_algorithm)
                 IN /\ r.created => next_key_id < MaxKeys
                    /\ keys' = r.keys
                    /\ next_key_id' = IF r.created THEN next_key_id + 1 ELSE next_key_id
                    /\ \E kept \in {"access", "refresh"} :
                         held' = [token |-> IF kept = "access" THEN access_token
                                            ELSE refresh_token,
                                  user_id |-> user_id, kind |-> kept]
                    /\ jwt_last' = [JwtAnswer("refresh_jwt_token", r.key_id, "", NoPayload)
                                       EXCEPT !.presented = held.token, !.status = "200",
                                              !.access_token = access_token,
                                              !.refresh_token = refresh_token]
                    /\ key_hist' = [key_hist EXCEPT ![jwt_algorithm] = Noted(@, "issue")]
    /\ UNCHANGED <<credState, webState, now, jwt_algorithm, kreq>>

\* JWTService.rotate_keys, run as one transaction
rotate_keys ==
    /\ \E current_key \in FirstActive(keys, jwt_algorithm) :
         LET committed == IF current_key # None THEN Deactivate(keys, current_key, now)
                          ELSE keys
         IN \E key \in FirstActive(committed, jwt_algorithm) :
              LET r == get_or_create_key(committed, jwt_algorithm, key, next_key_id + 1, now)
              IN /\ r.created => next_key_id < MaxKeys
                 /\ keys' = r.keys
                 /\ next_key_id' = IF r.created THEN next_key_id + 1 ELSE next_key_id
                 /\ jwt_last' = JwtAnswer("rotate_keys", r.key_id, "", NoPayload)
    /\ key_hist' = [key_hist EXCEPT ![jwt_algorithm] = Noted(@, "rotate")]
    /\ UNCHANGED <<credState, webState, now, jwt_algorithm, held, kreq>>

\* time passes
Tick ==
    /\ now < StartTime + MaxTime
    /\ now' = now + 1
    /\ UNCHANGED <<credState, jwtState, webState>>

\* The same two operations, one database round trip at a time. Each request
\* has its own Session and no row is locked between its query and its commit.

\* a request for a token ("issue") or a rotation ("rotate") arrives
KeyStart(p, op) ==
    /\ kreq[p].pc = "idle"
    /\ kreq' = [kreq EXCEPT ![p] =
          [pc |-> IF op = "rotate" THEN "rot_lookup" ELSE "lookup", op |-> op,
           key |-> None, result |-> None]]
    /\ UNCHANGED <<credState, webState, now, jwt_algorithm, keys, next_key_id, held, key_hist, jwt_last>>

\* rotate_keys, jwt_service.py:267-270: query the current active key
RotLookup(p) ==
    /\ kreq[p].pc = "rot_lookup"
    /\ \E current_key \in FirstActive(keys, jwt_algorithm) :
         kreq' = [kreq EXCEPT ![p] = [@ EXCEPT !.pc = "rot_commit", !.key = current_key]]
    /\ UNCHANGED <<credState, webState, now, jwt_algorithm, keys, next_key_id, held, key_hist, jwt_last>>

\* rotate_keys, jwt_service.py:272-277: deactivate it and commit
RotCommit(p) ==
    /\ kreq[p].pc = "rot_commit"
    /\ keys' = IF kreq[p].key # None THEN Deactivate(keys, kreq[p].key, now) ELSE keys
    /\ kreq' = [kreq EXCEPT ![p] = [@ EXCEPT !.pc = "lookup", !.key = None]]
    /\ UNCHANGED <<credState, webState, now, jwt_algorithm, next_key_id, held, key_hist, jwt_last>>

\* _get_or_create_key, jwt_service.py:42-48: query the active key; return it
\* when it can be used
KeyLookup(p) ==
    /\ kreq[p].pc = "lookup"
    /\ \E key \in FirstActive(keys, jwt_algorithm) :
         kreq' = [kreq EXCEPT ![p] =
            IF KeyUsable(keys, key, now)
            THEN [@ EXCEPT !.pc = "done", !.key = key, !.result = key]
            ELSE [@ EXCEPT !.pc = "insert", !.key = key]]
    /\ UNCHANGED <<credState, webState, now, jwt_algorithm, keys, next_key_id, held, key_hist, jwt_last>>

\* _get_or_create_key, jwt_service.py:50-101: insert the new key and commit
KeyInsert(p) ==
    /\ kreq[p].pc = "insert"
    /\ next_key_id < MaxKeys
    /\ keys' = InsertNewKey(keys, jwt_algorithm, kreq[p].key, next_key_id + 1, now)
    /\ next_key_id' = next_key_id + 1
    /\ kreq' = [kreq EXCEPT ![p] = [@ EXCEPT !.pc = "done", !.result = next_key_id + 1]]
    /\ UNCHANGED <<credState, webState, now, jwt_algorithm, held, key_hist, jwt_last>>

\* the response is sent; the worker is free for the next request
KeyReturn(p) ==
    /\ kreq[p].pc = "done"
    /\ kreq' = [kreq EXCEPT ![p] = IdleKeyReq]
    /\ key_hist' = [key_hist EXCEPT ![jwt_algorithm] = Noted(@, kreq[p].op)]
    /\ UNCHANGED <<credState, webState, now, jwt_algorithm, keys, next_key_id, held, jwt_last>>

\* ============================================= hoa/services/webauthn.py
\* Settings.parsed_rps: the relying parties of the configuration under study
AllowedRps ==
    << [rp_id |-> "example.com", origins |-> {"https://example.com", "https://app.example.com"}],
       [rp_id |-> "other.org", origins |-> {"https://other.org"}] >>

RpIds == {"example.com", "other.org", "evil.test"}
Origins == {"https://example.com", "https://app.example.com", "https://other.org",
            "https://evil.test"}
Challenges == 1..MaxChallenges
CredentialIds == 1..MaxCredentials

\* faulty variant of get_rp_for: the origin may be one of any relying party
get_rp_for_any_origin(rp_id, origin) ==
    LET hits == {i \in DOMAIN AllowedRps :
                   /\ AllowedRps[i].rp_id = rp_id
                   /\ \E j \in DOMAIN AllowedRps : origin \in AllowedRps[j].origins}
    IN IF hits = {} THEN None ELSE CHOOSE i \in hits : \A j \in hits : i <= j

\* WebAuthnService.get_rp_for(rp_id, origin): the first configured relying
\* party with that rp_id that lists the origin (its index), or None
get_rp_for(rp_id, origin) ==
    LET hits == {i \in DOMAIN AllowedRps :
                   AllowedRps[i].rp_id = rp_id /\ origin \in AllowedRps[i].origins}
    IN IF hits = {} THEN None ELSE CHOOSE i \in hits : \A j \in hits : i <= j

\* The credential response a client sends to a finish call: the credential
\* it names, the challenge, rp_id and origin the authenticator signed over,
\* the authenticator's counter, and whether attestation / signature are those
\* of the credential's own key.
CredentialResponses(rp_ids, origins) ==
    [id : CredentialIds, challenge : Challenges, rp_id : rp_ids, origin : origins,
     sign_count : 0..MaxSignCount, genuine : BOOLEAN]

\* faulty variant of verify_registration_response: any challenge is accepted
verify_registration_response_any_challenge(credential, expected_challenge, expected_rp_id, expected_origin) ==
    /\ credential.genuine
    /\ credential.rp_id = expected_rp_id
    /\ credential.origin = expected_origin

\* the verifier of the webauthn library, verify_registration_response
verify_registration_response(credential, expected_challenge, expected_rp_id, expected_origin) ==
    /\ credential.genuine
    /\ credential.challenge = expected_challenge
    /\ credential.rp_id = expected_rp_id
    /\ credential.origin = expected_origin

\* the verifier of the webauthn library, verify_authentication_response: the
\* signature is checked with the stored public key, and a counter that does
\* not advance is refused unless both counters are 0
verify_authentication_response(credential, expected_challenge, expected_rp_id, expected_origin, credential_public_key, credential_current_sign_count) ==
    /\ credential.genuine
    /\ credential_public_key = credential.id
    /\ credential.challenge = expected_challenge
    /\ credential.rp_id = expected_rp_id
    /\ credential.origin = expected_origin
    /\ ~(/\ (credential_current_sign_count > 0 \/ credential.sign_count > 0)
         /\ credential.sign_count <= credential_current_sign_count)

\* what a WebAuthnService call gives back: the ValueError it raises ("" when
\* none), the challenge of the options, the (rp_id, origin) the verifier was
\* called with (<<>> when it was not called) and the credential information
ServiceResult(error) ==
    [error |-> error, challenge |-> None, verifier |-> <<>>,
     credential_id |-> None, public_key |-> None, sign_count |-> 0]

\* WebAuthnService.begin_registration(rp_id, origin, ...), with the challenge
\* generate_registration_options draws
begin_registration(rp_id, origin, challenge) ==
    IF get_rp_for(rp_id, origin) = None THEN ServiceResult("Invalid RP/origin combination")
    ELSE [ServiceResult("") EXCEPT !.challenge = challenge]

\* WebAuthnService.begin_authentication(rp_id, origin, ...)
begin_authentication(rp_id, origin, challenge) ==
    IF get_rp_for(rp_id, origin) = None THEN ServiceResult("Invalid RP/origin combination")
    ELSE [ServiceResult("") EXCEPT !.challenge = challenge]

\* faulty variant of finish_registration: the verifier runs before the
\* relying party is looked up
finish_registration_verify_first(credential, expected_challenge, expected_rp_id, expected_origin) ==
    IF ~verify_registration_response(credential, expected_challenge,
                                     expected_rp_id, expected_origin)
    THEN [ServiceResult("Registration verification failed")
            EXCEPT !.verifier = <<expected_rp_id, expected_origin>>]
    ELSE IF get_rp_for(expected_rp_id, expected_origin) = None
    THEN [ServiceResult("Invalid RP/origin combination")
            EXCEPT !.verifier = <<expected_rp_id, expected_origin>>]
    ELSE [ServiceResult("") EXCEPT !.verifier = <<expected_rp_id, expected_origin>>,
                                   !.credential_id = credential.id,
                                   !.public_key = credential.id,
                                   !.sign_count = credential.sign_count]

\* WebAuthnService.finish_registration(credential, expected_challenge,
\* expected_rp_id, expected_origin)
finish_registration(credential, expected_challenge, expected_rp_id, expected_origin) ==
    IF get_rp_for(expected_rp_id, expected_origin) = None
    THEN ServiceResult("Invalid RP/origin combination")
    ELSE IF ~verify_registration_response(credential, expected_challenge,
                                          expected_rp_id, expected_origin)
    THEN [ServiceResult("Registration verification failed")
            EXCEPT !.verifier = <<expected_rp_id, expected_origin>>]
    ELSE [ServiceResult("") EXCEPT !.verifier = <<expected_rp_id, expected_origin>>,
                                   !.credential_id = credential.id,
                                   !.public_key = credential.id,
                                   !.sign_count = credential.sign_count]

\* WebAuthnService.finish_authentication(credential, expected_challenge,
\* expected_rp_id, expected_origin, credential_public_key,
\* credential_current_sign_count)
finish_authentication(credential, expected_challenge, expected_rp_id, expected_origin, credential_public_key, credential_current_sign_count) ==
    IF get_rp_for(expected_rp_id, expected_origin) = None
    THEN ServiceResult("Invalid RP/origin combination")
    ELSE IF ~verify_authentication_response(credential, expected_challenge,
                                            expected_rp_id, expected_origin,
                                            credential_public_key,
                                            credential_current_sign_count)
    THEN [ServiceResult("Authentication verification failed")
            EXCEPT !.verifier = <<expected_rp_id, expected_origin>>]
    ELSE [ServiceResult("") EXCEPT !.verifier = <<expected_rp_id, expected_origin>>,
                                   !.credential_id = credential.id,
                                   !.sign_count = credential.sign_count]

\* the answer to a WebAuthn request or service call
WebAnswer(op, status, result) ==
    [op |-> op, status |-> status, result |-> result, asked |-> <<>>,
     exclude |-> {}, user |-> None, auth_id |-> None]

\* ---- direct calls of WebAuthnService (it keeps no state between calls)
CallBeginRegistration(rp_id, origin) ==
    /\ next_challenge < MaxChallenges
    /\ LET r == begin_registration(rp_id, origin, next_challenge + 1)
       IN /\ web_last' = [WebAnswer("begin_registration", r.error, r)
                            EXCEPT !.asked = <<rp_id, origin>>]
          /\ next_challenge' = IF r.error = "" THEN next_challenge + 1 ELSE next_challenge
    /\ UNCHANGED <<credState, now, jwtState, session, wreq, sreq, consumed>>

CallBeginAuthentication(rp_id, origin) ==
    /\ next_challenge < MaxChallenges
    /\ LET r == begin_authentication(rp_id, origin, next_challenge + 1)
       IN /\ web_last' = [WebAnswer("begin_authentication", r.error, r)
                            EXCEPT !.asked = <<rp_id, origin>>]
          /\ next_challenge' = IF r.error = "" THEN next_challenge + 1 ELSE next_challenge
    /\ UNCHANGED <<credState, now, jwtState, session, wreq, sreq, consumed>>

CallFinishRegistration(credential, expected_challenge, expected_rp_id, expected_origin) ==
    /\ LET r == finish_registration(credential, expected_challenge, expected_rp_id,
                                    expected_origin)
       IN web_last' = [WebAnswer("finish_registration", r.error, r)
                         EXCEPT !.asked = <<expected_rp_id, expected_origin>>]
    /\ UNCHANGED <<credState, now, jwtState, session, next_challenge, wreq, sreq, consumed>>

CallFinishAuthentication(credential, expected_challenge, expected_rp_id, expected_origin, credential_public_key, credential_current_sign_count) ==
    /\ LET r == finish_authentication(credential, expected_challenge, expected_rp_id,
                                      expected_origin, credential_public_key,
                                      credential_current_sign_count)
       IN web_last' = [WebAnswer("finish_authentication", r.error, r)
                         EXCEPT !.asked = <<expected_rp_id, expected_origin>>]
    /\ UNCHANGED <<credState, now, jwtState, session, next_challenge, wreq, sreq, consumed>>

\* ===================================================== hoa/api/auth.py
\* no pending ceremony: the webauthn_reg_* / webauthn_auth_* keys are absent
NoCeremony == [challenge |-> None, rp_id |-> "", origin |-> "", user_id |-> None]

\* request.session of a client that has not talked to the server yet
EmptySession ==
    [reg |-> NoCeremony, auth |-> NoCeremony, add |-> NoCeremony, user_id |-> None]

\* str(uuid.uuid4()) of begin_webauthn_registration: the id of no stored user
Ephemeral == -1

\* a worker with no finish request in hand. A request carries the session
\* its cookie held when it arrived (app.py:43-51) and what it has loaded since.
IdleFinishReq ==
    [pc |-> "idle", kind |-> "", credential |-> None, cookie |-> EmptySession,
     current_user |-> None, info |-> ServiceResult(""), passkey |-> None,
     sign_count |-> 0, user |-> None]

WebInit ==
    /\ session = EmptySession
    /\ next_challenge = 0
    /\ web_last = WebAnswer("none", "", ServiceResult(""))
    /\ wreq = [p \in Procs |-> IdleFinishReq]
    /\ sreq = [p \in Procs |-> IdleSignReq]
    /\ consumed = [k \in {"reg", "auth"} |-> [c \in Challenges |-> 0]]

\* deps.get_current_user, by the session: the user the session names, if it
\* exists and is enabled
get_current_user(s) ==
    IF s.user_id # None /\ s.user_id \in DOMAIN users /\ users[s.user_id].enabled
    THEN s.user_id ELSE None

\* AuthMethodService.get_user_passkeys(user_id, rp_id)
get_user_passkeys(table, user_id, rp_id) ==
    {i \in DOMAIN table : /\ table[i].type = "passkey"
                          /\ table[i].user_id = user_id
                          /\ table[i].rp_id = rp_id}

\* AuthMethodService.get_passkey_by_credential_id(credential_id): the ids of
\* the rows found (credential_id is unique)
get_passkey_by_credential_id(table, credential_id) ==
    {i \in DOMAIN table : table[i].type = "passkey" /\ table[i].credential_id = credential_id}

\* faulty variant of PasskeyAuth: the counter starts at 0 whatever was reported
PasskeyAuthZeroCount(user_id, credential_id, public_key, sign_count, rp_id, requires_approval) ==
    [AuthMethodRow(user_id, "passkey", TRUE, requires_approval, ~requires_approval)
        EXCEPT !.credential_id = credential_id, !.public_key = public_key,
               !.rp_id = rp_id]

\* the row AuthMethodService.add_passkey builds (auth_methods.py:115-129)
PasskeyAuth(user_id, credential_id, public_key, sign_count, rp_id, requires_approval) ==
    [AuthMethodRow(user_id, "passkey", TRUE, requires_approval, ~requires_approval)
        EXCEPT !.credential_id = credential_id, !.public_key = public_key,
               !.sign_count = sign_count, !.rp_id = rp_id]

\* the UNIQUE index on passkey_auth.credential_id (models/auth_method.py:95):
\* whether the insert of row would collide with a stored passkey
UniqueViolation(table, row) ==
    /\ row.type = "passkey"
    /\ row.credential_id # None
    /\ get_passkey_by_credential_id(table, row.credential_id) # {}

\* faulty variant of add_passkey_with: the index on credential_id is missing
add_passkey_unindexed(user_id, credential_id, public_key, rp_id, override) ==
    LET requires_approval == IF override = <<>> THEN require_auth_method_approval
                             ELSE override[1]
    IN AddRow("add_passkey",
              PasskeyAuth(user_id, credential_id, public_key, 0, rp_id, requires_approval))

\* AuthMethodService.add_passkey(user_id, credential_id, public_key, rp_id,
\* requires_approval=override) with the credential columns spelled out; the
\* commit raises IntegrityError when credential_id is already stored
add_passkey_with(user_id, credential_id, public_key, rp_id, override) ==
    LET requires_approval == IF override = <<>> THEN require_auth_method_approval
                             ELSE override[1]
        passkey == PasskeyAuth(user_id, credential_id, public_key, 0, rp_id,
                               requires_approval)
    IN IF UniqueViolation(auth_methods, passkey)
       THEN /\ next_auth_id < MaxAuthMethods
            /\ user_id \in 1..next_user_id
            /\ last' = Answer("add_passkey", None, None, "IntegrityError")
            /\ UNCHANGED <<users, auth_methods, next_user_id, next_auth_id, require_auth_method_approval, foreign_keys, dreq, now, jwtState, webState>>
       ELSE AddRow("add_passkey", passkey)

\* POST /api/auth/logout
logout ==
    /\ session # EmptySession
    /\ session' = EmptySession
    /\ web_last' = WebAnswer("logout", "200", ServiceResult(""))
    /\ UNCHANGED <<credState, now, jwtState, next_challenge, wreq, sreq, consumed>>

\* POST /api/auth/webauthn/register/begin
begin_webauthn_registration(rp_id, origin) ==
    /\ next_challenge < MaxChallenges
    /\ IF get_rp_for(rp_id, origin) = None
       THEN /\ web_last' = WebAnswer("begin_webauthn_registration", "400",
                                     ServiceResult("Invalid RP/origin combination"))
            /\ UNCHANGED <<session, next_challenge>>
       ELSE LET current_user == get_current_user(session)
                user_id == IF current_user # None THEN current_user ELSE Ephemeral
                existing_passkeys ==
                    IF current_user = None THEN {}
                    ELSE {auth_methods[i].credential_id :
                            i \in get_user_passkeys(auth_methods, current_user, rp_id)}
                r == begin_registration(rp_id, origin, next_challenge + 1)
            IN /\ next_challenge' = next_challenge + 1
               /\ session' = [session EXCEPT !.reg =
                     [challenge |-> r.challenge, rp_id |-> rp_id, origin |-> origin,
                      user_id |-> user_id]]
               /\ web_last' = [WebAnswer("begin_webauthn_registration", "200", r)
                                 EXCEPT !.exclude = existing_passkeys, !.user = user_id]
    /\ UNCHANGED <<credState, now, jwtState, wreq, sreq, consumed>>

\* POST /api/auth/webauthn/login/begin
begin_webauthn_authentication(rp_id, origin) ==
    /\ next_challenge < MaxChallenges
    /\ IF get_rp_for(rp_id, origin) = None
       THEN /\ web_last' = WebAnswer("begin_webauthn_authentication", "400",
                                     ServiceResult("Invalid RP/origin combination"))
            /\ UNCHANGED <<session, next_challenge>>
       ELSE LET r == begin_authentication(rp_id, origin, next_challenge + 1)
            IN /\ next_challenge' = next_challenge + 1
               /\ session' = [session EXCEPT !.auth =
                     [challenge |-> r.challenge, rp_id |-> rp_id, origin |-> origin,
                      user_id |-> None]]
               /\ web_last' = WebAnswer("begin_webauthn_authentication", "200", r)
    /\ UNCHANGED <<credState, now, jwtState, wreq, sreq, consumed>>

\* faulty variant of Refused: the pending ceremonies are dropped on refusal
RefusedAndCleared(op, status, result) ==
    /\ web_last' = WebAnswer(op, status, result)
    /\ session' = [session EXCEPT !.reg = NoCeremony, !.auth = NoCeremony]
    /\ UNCHANGED <<users, next_user_id, auth_methods, next_auth_id, consumed>>

\* a finish call that is refused: nothing but the answer changes
Refused(op, status, result) ==
    /\ web_last' = WebAnswer(op, status, result)
    /\ UNCHANGED <<users, next_user_id, auth_methods, next_auth_id, session, consumed>>

\* one more successful finish of that kind for that challenge
Consumed(count, kind, challenge) ==
    [count EXCEPT ![kind][challenge] = IF @ < 2 THEN @ + 1 ELSE @]

\* faulty variant of ClearCeremony: the keys are left in the session
ClearNothing(s, kind) == s

\* request.session.pop(key, None) for the webauthn_reg_* / webauthn_auth_* /
\* webauthn_add_passkey_* keys
ClearCeremony(s, kind) ==
    IF kind = "reg" THEN [s EXCEPT !.reg = NoCeremony]
    ELSE IF kind = "auth" THEN [s EXCEPT !.auth = NoCeremony]
    ELSE [s EXCEPT !.add = NoCeremony]

\* faulty variant of RpOriginMismatch: the request's rp_id and origin are
\* not compared with the session's
RpOriginMismatchNever(rp_id, origin, record) == FALSE

\* the test "data.rp_id != rp_id or data.origin != origin" of the finish
\* endpoints, record being what the begin call stored in the session
RpOriginMismatch(rp_id, origin, record) ==
    rp_id # record.rp_id \/ origin # record.origin

\* POST /api/auth/webauthn/register/finish, run as one transaction
finish_webauthn_registration(rp_id, origin, credential) ==
    /\ LET op == "finish_webauthn_registration"
           reg == session.reg
       IN IF reg.challenge = None \/ reg.rp_id = "" \/ reg.origin = "" \/ reg.user_id = None
          THEN Refused(op, "400 session", ServiceResult(""))
          ELSE IF RpOriginMismatch(rp_id, origin, reg)
          THEN Refused(op, "400 mismatch", ServiceResult(""))
          ELSE LET info == finish_registration(credential, reg.challenge, reg.rp_id,
                                               reg.origin)
               IN IF info.error # ""
                  THEN Refused(op, "400 verification", info)
                  ELSE LET current_user == get_current_user(session)
                           found == IF current_user # None THEN current_user
                                    ELSE IF reg.user_id \in DOMAIN users THEN reg.user_id
                                    ELSE None
                           user == IF found = None THEN next_user_id + 1 ELSE found
                           requires_approval == require_auth_method_approval
                       IN /\ found = None => next_user_id < MaxUsers
                          /\ next_auth_id < MaxAuthMethods
                          /\ users' = IF found = None
                                      THEN Insert(users, user, UserRow(TRUE, FALSE))
                                      ELSE users
                          /\ next_user_id' = IF found = None THEN next_user_id + 1
                                             ELSE next_user_id
                          /\ IF get_passkey_by_credential_id(auth_methods,
                                                             info.credential_id) # {}
                             THEN \* IntegrityError: credential_id is unique
                                  /\ web_last' = [WebAnswer(op, "500", info)
                                                    EXCEPT !.user = user]
                                  /\ UNCHANGED <<auth_methods, next_auth_id, session,
                                                 consumed>>
                             ELSE /\ auth_methods' =
                                       Insert(auth_methods, next_auth_id + 1,
                                              PasskeyAuth(user, info.credential_id,
                                                          info.public_key, info.sign_count,
                                                          reg.rp_id, requires_approval))
                                  /\ next_auth_id' = next_auth_id + 1
                                  /\ session' = ClearCeremony(
                                         [session EXCEPT !.user_id =
                                             IF users'[user].enabled THEN user ELSE @],
                                         "reg")
                                  /\ consumed' = Consumed(consumed, "reg", reg.challenge)
                                  /\ web_last' = [WebAnswer(op, "200", info)
                                                    EXCEPT !.user = user,
                                                           !.auth_id = next_auth_id + 1]
    /\ UNCHANGED <<require_auth_method_approval, foreign_keys, last, dreq, now, jwtState,
                   next_challenge, wreq, sreq>>

\* faulty variant of CredentialRejected: any stored passkey will do
CredentialRejectedIfUnknown(table, found) == found = {}

\* the test "not passkey or not passkey.enabled or not passkey.approved"
\* (auth.py:312-317) on the rows found for the credential id
CredentialRejected(table, found) ==
    \/ found = {}
    \/ \E i \in found : ~table[i].enabled \/ ~table[i].approved

\* POST /api/auth/webauthn/login/finish, run as one transaction
finish_webauthn_authentication(rp_id, origin, credential) ==
    /\ LET op == "finish_webauthn_authentication"
           auth == session.auth
           found == get_passkey_by_credential_id(auth_methods, credential.id)
       IN IF auth.challenge = None \/ auth.rp_id = "" \/ auth.origin = ""
          THEN Refused(op, "400 session", ServiceResult(""))
          ELSE IF RpOriginMismatch(rp_id, origin, auth)
          THEN Refused(op, "400 mismatch", ServiceResult(""))
          ELSE IF CredentialRejected(auth_methods, found)
          THEN Refused(op, "401 credential", ServiceResult(""))
          ELSE LET id == CHOOSE i \in found : TRUE
                   passkey == auth_methods[id]
               IN IF passkey.user_id \notin DOMAIN users \/ ~users[passkey.user_id].enabled
                  THEN Refused(op, "403", ServiceResult(""))
                  ELSE LET auth_result ==
                               finish_authentication(credential, auth.challenge, auth.rp_id,
                                                     auth.origin, passkey.public_key,
                                                     passkey.sign_count)
                       IN IF auth_result.error # ""
                          THEN Refused(op, "401 verification", auth_result)
                          ELSE /\ auth_methods' = [auth_methods EXCEPT ![id].sign_count =
                                                      max(@, auth_result.sign_count)]
                               /\ session' = ClearCeremony(
                                      [session EXCEPT !.user_id = passkey.user_id], "auth")
                               /\ consumed' = Consumed(consumed, "auth", auth.challenge)
                               /\ web_last' = [WebAnswer(op, "200", auth_result)
                                                 EXCEPT !.user = passkey.user_id,
                                                        !.auth_id = id]
                               /\ UNCHANGED <<users, next_user_id, next_auth_id>>
    /\ UNCHANGED <<require_auth_method_approval, foreign_keys, last, dreq, now, jwtState,
                   next_challenge, wreq, sreq>>

\* POST /api/users/me/auth-methods/passkey/begin
begin_add_passkey(rp_id, origin) ==
    /\ next_challenge < MaxChallenges
    /\ LET op == "begin_add_passkey"
           current_user == get_current_user(session)
       IN IF current_user = None
          THEN /\ web_last' = WebAnswer(op, "401", ServiceResult(""))
               /\ UNCHANGED <<session, next_challenge>>
          ELSE IF get_rp_for(rp_id, origin) = None
          THEN /\ web_last' = WebAnswer(op, "400",
                                        ServiceResult("Invalid RP/origin combination"))
               /\ UNCHANGED <<session, next_challenge>>
          ELSE LET exclude_credentials ==
                       {auth_methods[i].credential_id :
                          i \in get_user_passkeys(auth_methods, current_user, rp_id)}
                   r == begin_registration(rp_id, origin, next_challenge + 1)
               IN /\ next_challenge' = next_challenge + 1
                  /\ session' = [session EXCEPT !.add =
                        [challenge |-> r.challenge, rp_id |-> rp_id, origin |-> origin,
                         user_id |-> None]]
                  /\ web_last' = [WebAnswer(op, "200", r)
                                    EXCEPT !.exclude = exclude_credentials,
                                           !.user = current_user]
    /\ UNCHANGED <<credState, now, jwtState, wreq, sreq, consumed>>

\* POST /api/users/me/auth-methods/passkey/finish, run as one transaction.
\* The keys are popped before add_passkey; when its commit raises, the 500
\* is sent without the session being written back.
finish_add_passkey(rp_id, origin, credential) ==
    /\ LET op == "finish_add_passkey"
           current_user == get_current_user(session)
           add == session.add
       IN IF current_user = None
          THEN Refused(op, "401", ServiceResult(""))
          ELSE IF add.challenge = None \/ add.rp_id = "" \/ add.origin = ""
          THEN Refused(op, "400 session", ServiceResult(""))
          ELSE IF RpOriginMismatch(rp_id, origin, add)
          THEN Refused(op, "400 mismatch", ServiceResult(""))
          ELSE LET credential_info == finish_registration(credential, add.challenge,
                                                          add.rp_id, add.origin)
               IN IF credential_info.error # ""
                  THEN Refused(op, "400 verification", credential_info)
                  ELSE /\ next_auth_id < MaxAuthMethods
                       /\ IF get_passkey_by_credential_id(
                                 auth_methods, credential_info.credential_id) # {}
                          THEN Refused(op, "500", credential_info)
                          ELSE /\ auth_methods' =
                                    Insert(auth_methods, next_auth_id + 1,
                                           PasskeyAuth(current_user,
                                                       credential_info.credential_id,
                                                       credential_info.public_key,
                                                       credential_info.sign_count,
                                                       add.rp_id,
                                                       require_auth_method_approval))
                               /\ next_auth_id' = next_auth_id + 1
                               /\ session' = ClearCeremony(session, "add")
                               /\ web_last' = [WebAnswer(op, "200", credential_info)
                                                 EXCEPT !.user = current_user,
                                                        !.auth_id = next_auth_id + 1]
                               /\ UNCHANGED <<users, next_user_id, consumed>>
    /\ UNCHANGED <<require_auth_method_approval, foreign_keys, last, dreq, now, jwtState,
                   next_challenge, wreq, sreq>>

FinishOp(kind) ==
    IF kind = "reg" THEN "finish_webauthn_registration"
    ELSE "finish_webauthn_authentication"

\* the request ends with an error response: only the answer is kept
FinishRefuse(p, status, result) ==
    /\ web_last' = WebAnswer(FinishOp(wreq[p].kind), status, result)
    /\ wreq' = [wreq EXCEPT ![p] = IdleFinishReq]

\* auth.py:135-152, 286-301: a finish request arrives with the client's
\* session cookie and reads the pending ceremony from it
FinishRead(p, kind, rp_id, origin, credential) ==
    /\ wreq[p].pc = "idle"
    /\ LET record == IF kind = "reg" THEN session.reg ELSE session.auth
       IN IF \/ record.challenge = None \/ record.rp_id = "" \/ record.origin = ""
             \/ (kind = "reg" /\ record.user_id = None)
          THEN /\ web_last' = WebAnswer(FinishOp(kind), "400 session", ServiceResult(""))
               /\ wreq' = wreq
          ELSE IF rp_id # record.rp_id \/ origin # record.origin
          THEN /\ web_last' = WebAnswer(FinishOp(kind), "400 mismatch", ServiceResult(""))
               /\ wreq' = wreq
          ELSE /\ wreq' = [wreq EXCEPT ![p] =
                     [IdleFinishReq EXCEPT !.pc = "verify", !.kind = kind,
                                           !.credential = credential,
                                           !.cookie = session,
                                           !.current_user = get_current_user(session)]]
               /\ web_last' = web_last
    /\ UNCHANGED <<credState, now, jwtState, session, next_challenge, sreq, consumed>>

\* auth.py:154-166, 303-337: the passkey and its user are loaded (login) and
\* the verifier checks the response against the challenge the request read
FinishVerify(p) ==
    /\ wreq[p].pc = "verify"
    /\ LET req == wreq[p]
           credential == req.credential
       IN IF req.kind = "reg"
          THEN LET reg == req.cookie.reg
                   info == finish_registration(credential, reg.challenge, reg.rp_id,
                                               reg.origin)
               IN IF info.error # ""
                  THEN FinishRefuse(p, "400 verification", info)
                  ELSE /\ wreq' = [wreq EXCEPT ![p] = [req EXCEPT !.pc = "persist",
                                                                  !.info = info]]
                       /\ web_last' = web_last
          ELSE LET auth == req.cookie.auth
                   found == get_passkey_by_credential_id(auth_methods, credential.id)
               IN IF \/ found = {}
                     \/ \E i \in found :
                           ~auth_methods[i].enabled \/ ~auth_methods[i].approved
                  THEN FinishRefuse(p, "401 credential", ServiceResult(""))
                  ELSE LET id == CHOOSE i \in found : TRUE
                           passkey == auth_methods[id]
                           auth_result ==
                               finish_authentication(credential, auth.challenge,
                                                     auth.rp_id, auth.origin,
                                                     passkey.public_key,
                                                     passkey.sign_count)
                       IN IF \/ passkey.user_id \notin DOMAIN users
                             \/ ~users[passkey.user_id].enabled
                          THEN FinishRefuse(p, "403", ServiceResult(""))
                          ELSE IF auth_result.error # ""
                          THEN FinishRefuse(p, "401 verification", auth_result)
                          ELSE /\ wreq' = [wreq EXCEPT ![p] =
                                     [req EXCEPT !.pc = "persist", !.info = auth_result,
                                                 !.passkey = id,
                                                 !.sign_count = passkey.sign_count,
                                                 !.user = passkey.user_id]]
                               /\ web_last' = web_last
    /\ UNCHANGED <<credState, now, jwtState, session, next_challenge, sreq, consumed>>

\* auth.py:168-205, 339-343: the user and the passkey are stored
\* (registration), the signature counter is written (login)
FinishPersist(p) ==
    /\ wreq[p].pc = "persist"
    /\ LET req == wreq[p]
           info == req.info
       IN IF req.kind = "reg"
          THEN LET reg == req.cookie.reg
                   found == IF req.current_user # None THEN req.current_user
                            ELSE IF reg.user_id \in DOMAIN users THEN reg.user_id
                            ELSE None
                   user == IF found = None THEN next_user_id + 1 ELSE found
               IN /\ found = None => next_user_id < MaxUsers
                  /\ next_auth_id < MaxAuthMethods
                  /\ users' = IF found = None
                              THEN Insert(users, user, UserRow(TRUE, FALSE))
                              ELSE users
                  /\ next_user_id' = IF found = None THEN next_user_id + 1
                                     ELSE next_user_id
                  /\ IF get_passkey_by_credential_id(auth_methods,
                                                     info.credential_id) # {}
                     THEN \* IntegrityError: credential_id is unique
                          /\ web_last' = [WebAnswer(FinishOp("reg"), "500", info)
                                            EXCEPT !.user = user]
                          /\ wreq' = [wreq EXCEPT ![p] = IdleFinishReq]
                          /\ UNCHANGED <<auth_methods, next_auth_id>>
                     ELSE /\ auth_methods' =
                               Insert(auth_methods, next_auth_id + 1,
                                      PasskeyAuth(user, info.credential_id,
                                                  info.public_key, info.sign_count,
                                                  reg.rp_id,
                                                  require_auth_method_approval))
                          /\ next_auth_id' = next_auth_id + 1
                          /\ wreq' = [wreq EXCEPT ![p] =
                                [req EXCEPT !.pc = "clear", !.user = user,
                                            !.passkey = next_auth_id + 1]]
                          /\ web_last' = web_last
          ELSE /\ LET value == max(req.sign_count, info.sign_count)
                  IN auth_methods' =
                       IF value # req.sign_count /\ req.passkey \in DOMAIN auth_methods
                       THEN [auth_methods EXCEPT ![req.passkey].sign_count = value]
                       ELSE auth_methods
               /\ wreq' = [wreq EXCEPT ![p] = [req EXCEPT !.pc = "clear"]]
               /\ web_last' = web_last
               /\ UNCHANGED <<users, next_user_id, next_auth_id>>
    /\ UNCHANGED <<require_auth_method_approval, foreign_keys, last, dreq, now, jwtState, session,
                   next_challenge, sreq, consumed>>

\* auth.py:207-216, 345-357: the request logs the user in, pops the ceremony
\* keys from its session and answers 200; the answer's cookie replaces the
\* client's
FinishClear(p) ==
    /\ wreq[p].pc = "clear"
    /\ LET req == wreq[p]
           record == IF req.kind = "reg" THEN req.cookie.reg ELSE req.cookie.auth
           logged_in == req.kind = "auth"
                        \/ (req.user \in DOMAIN users /\ users[req.user].enabled)
       IN /\ session' = ClearCeremony(
                [req.cookie EXCEPT !.user_id = IF logged_in THEN req.user ELSE @],
                req.kind)
          /\ consumed' = Consumed(consumed, req.kind, record.challenge)
          /\ web_last' = [WebAnswer(FinishOp(req.kind), "200", req.info)
                            EXCEPT !.user = req.user, !.auth_id = req.passkey]
    /\ wreq' = [wreq EXCEPT ![p] = IdleFinishReq]
    /\ UNCHANGED <<credState, now, jwtState, next_challenge, sreq>>

\* ======================================================= specifications
Init ==
    /\ CredInit
    /\ now = StartTime
    /\ JwtInit
    /\ WebInit

\* the credential specifications run with the default jwt_algorithm
\* (config.py:301), the token specifications with the default
\* require_auth_method_approval (config.py:309): neither reads the other's
InitCred == Init /\ jwt_algorithm = "RS256" /\ foreign_keys = FALSE

InitJwt == Init /\ require_auth_method_approval = FALSE /\ foreign_keys = FALSE

\* the default of both settings
InitDefault == InitCred /\ require_auth_method_approval = FALSE

\* Spec: the credential requests of the API, one at a time
Next ==
    \/ \E a \in BOOLEAN : CreateUser(TRUE, a)
    \/ \E u \in UserIds, o \in {<<>>, <<TRUE>>, <<FALSE>>} : add_passkey(u, o)
    \/ \E i \in AuthIds, u \in UserIds, b \in BOOLEAN : approve(i, u, b)
    \/ \E u \in UserIds, i \in AuthIds, b \in BOOLEAN : toggle_enabled(u, i, b)
    \/ \E u \in UserIds, i \in AuthIds : delete_my_auth_method(u, i)

Spec == InitCred /\ [][Next]_vars

\* SpecService: direct calls of AuthMethodService, one at a time
NextService ==
    \/ \E e \in BOOLEAN, a \in BOOLEAN : CreateUser(e, a)
    \/ \E u \in UserIds : add_password(u)
    \/ \E u \in UserIds : add_token(u)
    \/ \E u \in UserIds, i \in AuthIds, b \in BOOLEAN : toggle_enabled(u, i, b)
    \/ \E i \in AuthIds : delete(i)

SpecService == InitCred /\ [][NextService]_vars

\* SpecAdd: auth methods of every type added through the service, under
\* either approval policy and with every requires_approval override
NextAdd ==
    \/ \E a \in BOOLEAN : CreateUser(TRUE, a)
    \/ \E u \in UserIds, o \in {<<>>, <<TRUE>>, <<FALSE>>} : add_passkey(u, o)
    \/ \E u \in UserIds : add_password(u)
    \/ \E u \in UserIds : add_token(u)

SpecAdd == InitCred /\ [][NextAdd]_vars

\* SpecApprove: passkeys that do or do not require approval, approved and
\* rejected by admins
NextApprove ==
    \/ \E a \in BOOLEAN : CreateUser(TRUE, a)
    \/ \E u \in UserIds, o \in {<<>>, <<TRUE>>} : add_passkey(u, o)
    \/ \E i \in AuthIds, u \in UserIds, b \in BOOLEAN : approve(i, u, b)

SpecApprove == InitDefault /\ [][NextApprove]_vars

\* SpecPending: passkeys that await approval or not, approved and rejected,
\* and the approval queue read with every limit
NextPending ==
    \/ \E a \in BOOLEAN : CreateUser(TRUE, a)
    \/ \E u \in UserIds, o \in {<<>>, <<TRUE>>} : add_passkey(u, o)
    \/ \E i \in AuthIds, u \in UserIds, b \in BOOLEAN : approve(i, u, b)
    \/ \E limit \in 0..MaxAuthMethods : get_pending_approvals(limit)

SpecPending == InitDefault /\ [][NextPending]_vars

\* SpecToggle: tokens added and auth methods enabled and disabled; nothing
\* is ever deleted
NextToggle ==
    \/ \E a \in BOOLEAN : CreateUser(TRUE, a)
    \/ \E u \in UserIds : add_token(u)
    \/ \E u \in UserIds, i \in AuthIds, b \in BOOLEAN : toggle_enabled(u, i, b)

SpecToggle == InitDefault /\ [][NextToggle]_vars

\* any database, the default approval policy
InitStore == Init /\ jwt_algorithm = "RS256" /\ require_auth_method_approval = FALSE

\* SpecStore: users and passkeys (with or without a requires_approval
\* override) added, approved, rejected, toggled and deleted through the
\* services, one call at a time
NextStore ==
    \/ \E a \in BOOLEAN : CreateUser(TRUE, a)
    \/ \E u \in UserIds, o \in {<<>>, <<TRUE>>} : add_passkey(u, o)
    \/ \E i \in AuthIds, u \in UserIds, b \in BOOLEAN : approve(i, u, b)
    \/ \E u \in UserIds, i \in AuthIds, b \in BOOLEAN : toggle_enabled(u, i, b)
    \/ \E i \in AuthIds : delete(i)
    \/ \E u \in UserIds : delete_user(u)

SpecStore == InitStore /\ [][NextStore]_vars

\* SpecDeleteRace: two delete_my_auth_method requests in flight at once
NextDeleteRace ==
    \/ \E a \in BOOLEAN : CreateUser(TRUE, a)
    \/ \E u \in UserIds : add_token(u)
    \/ \E p \in Procs, u \in UserIds, i \in AuthIds : DeleteBegin(p, u, i)
    \/ \E p \in Procs : DeleteCount(p)
    \/ \E p \in Procs : DeleteCommit(p)
    \/ \E p \in Procs : DeleteReturn(p)

SpecDeleteRace == InitCred /\ [][NextDeleteRace]_vars

\* SpecWebAuthnService: direct calls of WebAuthnService with any relying
\* party, origin and credential response
NextWebAuthnService ==
    \/ \E r \in RpIds, o \in Origins : CallBeginRegistration(r, o)
    \/ \E r \in RpIds, o \in Origins : CallBeginAuthentication(r, o)
    \/ \E r \in RpIds, o \in Origins, c \in Challenges,
          credential \in CredentialResponses({"example.com", "other.org"},
                                            {"https://example.com", "https://other.org"}) :
          CallFinishRegistration(credential, c, r, o)
    \/ \E r \in RpIds, o \in Origins, c \in Challenges,
          credential \in CredentialResponses({"example.com", "other.org"},
                                            {"https://example.com", "https://other.org"}),
          k \in CredentialIds, n \in 0..MaxSignCount :
          CallFinishAuthentication(credential, c, r, o, k, n)

SpecWebAuthnService == InitDefault /\ [][NextWebAuthnService]_vars

\* SpecCeremony: one client going through registration and authentication
\* ceremonies, one request at a time, under either approval policy
CeremonyRpIds == {"example.com", "other.org"}
CeremonyOrigins == {"https://example.com", "https://other.org"}

NextCeremony ==
    \/ \E r \in CeremonyRpIds, o \in CeremonyOrigins : begin_webauthn_registration(r, o)
    \/ \E r \in CeremonyRpIds, o \in CeremonyOrigins,
          credential \in CredentialResponses(CeremonyRpIds, CeremonyOrigins) :
          finish_webauthn_registration(r, o, credential)
    \/ \E r \in CeremonyRpIds, o \in CeremonyOrigins : begin_webauthn_authentication(r, o)
    \/ \E r \in CeremonyRpIds, o \in CeremonyOrigins,
          credential \in CredentialResponses(CeremonyRpIds, CeremonyOrigins) :
          finish_webauthn_authentication(r, o, credential)
    \/ logout

SpecCeremony == InitCred /\ [][NextCeremony]_vars

\* SpecFinishRace: one client, one relying party, approval not required; two
\* finish requests in flight at once, each carrying a genuine response of
\* some authenticator to the challenge pending in the client's session
RaceRpId == "example.com"
RaceOrigin == "https://example.com"

NextFinishRace ==
    \/ begin_webauthn_registration(RaceRpId, RaceOrigin)
    \/ begin_webauthn_authentication(RaceRpId, RaceOrigin)
    \/ \E p \in Procs, kind \in {"reg", "auth"}, id \in CredentialIds,
          n \in 0..MaxSignCount :
          FinishRead(p, kind, RaceRpId, RaceOrigin,
                     [id |-> id, sign_count |-> n, genuine |-> TRUE,
                      challenge |-> IF kind = "reg" THEN session.reg.challenge
                                    ELSE session.auth.challenge,
                      rp_id |-> RaceRpId, origin |-> RaceOrigin])
    \/ \E p \in Procs : FinishVerify(p)
    \/ \E p \in Procs : FinishPersist(p)
    \/ \E p \in Procs : FinishClear(p)

SpecFinishRace == InitDefault /\ [][NextFinishRace]_vars

\* SpecSignCount: the signature counter of passkeys, one call at a time
NextSignCount ==
    \/ \E a \in BOOLEAN : CreateUser(TRUE, a)
    \/ \E u \in UserIds : add_passkey(u, <<>>)
    \/ \E u \in UserIds : add_token(u)
    \/ \E i \in AuthIds, r \in 0..MaxSignCount : update_passkey_sign_count(i, r)

SpecSignCount == InitCred /\ [][NextSignCount]_vars

\* SpecSignRace: two update_passkey_sign_count calls in flight at once
NextSignRace ==
    \/ \E a \in BOOLEAN : CreateUser(TRUE, a)
    \/ \E u \in UserIds : add_passkey(u, <<>>)
    \/ \E p \in Procs, i \in AuthIds, r \in 0..MaxSignCount : SignRead(p, i, r)
    \/ \E p \in Procs : SignWrite(p)
    \/ \E p \in Procs : SignReturn(p)

SpecSignRace == InitCred /\ [][NextSignRace]_vars

\* SpecKeys: the signing-key lifecycle; token and rotation requests of
\* JWTService, one at a time, across restarts with either algorithm
NextKeys ==
    \/ \E a \in Algorithms : Restart(a)
    \/ \E u \in UserIds, d \in Deltas : create_access_token(u, d)
    \/ \E u \in UserIds, d \in Deltas : create_refresh_token(u, d)
    \/ rotate_keys

SpecKeys == InitJwt /\ [][NextKeys]_vars

\* SpecTokens: issuing, rotating and validating while time passes
NextTokens ==
    \/ \E u \in UserIds, d \in Deltas : create_access_token(u, d)
    \/ \E u \in UserIds, d \in Deltas : create_refresh_token(u, d)
    \/ \E tt \in TokenTypes : ValidateToken(tt)
    \/ rotate_keys
    \/ Tick

SpecTokens == InitJwt /\ [][NextTokens]_vars

\* SpecForged: tokens altered by the client are presented for verification,
\* across restarts with either algorithm
NextForged ==
    \/ \E a \in Algorithms : Restart(a)
    \/ \E u \in UserIds, d \in Deltas : create_access_token(u, d)
    \/ rotate_keys
    \/ \E k \in ForgeKinds, tt \in TokenTypes : VerifyPresented(k, tt)

SpecForged == InitJwt /\ [][NextForged]_vars

\* SpecRefresh: issuing and refreshing tokens while time passes
NextRefresh ==
    \/ \E u \in UserIds, d \in Deltas : create_access_token(u, d)
    \/ \E u \in UserIds, d \in Deltas : create_refresh_token(u, d)
    \/ refresh_jwt_token
    \/ Tick

SpecRefresh == InitJwt /\ [][NextRefresh]_vars

\* SpecKeyRace: two token / rotation requests in flight at once
NextKeyRace ==
    \/ \E p \in Procs, op \in {"issue", "rotate"} : KeyStart(p, op)
    \/ \E p \in Procs : RotLookup(p)
    \/ \E p \in Procs : RotCommit(p)
    \/ \E p \in Procs : KeyLookup(p)
    \/ \E p \in Procs : KeyInsert(p)
    \/ \E p \in Procs : KeyReturn(p)

SpecKeyRace == InitJwt /\ [][NextKeyRace]_vars

\* ============================================================ properties
EnabledAndApproved(table, user_id) ==
    {i \in DOMAIN table : table[i].user_id = user_id /\ table[i].enabled /\ table[i].approved}

ActiveRows(algorithm) ==
    {k \in DOMAIN keys : keys[k].is_active /\ keys[k].algorithm = algorithm}

RowsOf(algorithm) == {k \in DOMAIN keys : keys[k].algorithm = algorithm}

\* the token carries an "exp" claim that has passed at time t
Expired(token, t) == token.exp * TicksPerSecond <= t

\* C1: with the credential requests executed one at a time, a
\* delete_my_auth_method request that succeeds leaves the requester with at
\* least one enabled-and-approved auth method, and a request aimed at the
\* requester's only enabled-and-approved auth method is answered 400 and
\* removes nothing.
C1_DeleteKeepsFloor ==
    /\ [](last.op = "delete_my_auth_method" /\ last.status = "200"
            => /\ EnabledAndApproved(auth_methods, last.user) # {}
               /\ last.id \notin DOMAIN auth_methods)
    /\ [][\A u \in UserIds, i \in AuthIds :
            (/\ EnabledAndApproved(auth_methods, u) = {i}
             /\ last'.op = "delete_my_auth_method" /\ last'.user = u /\ last'.id = i)
            => (last'.status = "400" /\ auth_methods' = auth_methods)]_vars

\* a successful delete that leaves the requester exactly at the floor
W_C1 ==
    /\ last.op = "delete_my_auth_method" /\ last.status = "200"
    /\ Cardinality(EnabledAndApproved(auth_methods, last.user)) = 1

\* C2 as claimed: AuthMethodService.delete never removes an auth method
\* whose removal leaves its owner without an enabled-and-approved one.
C2_ServiceDeleteEnforcesFloor ==
    (last.op = "delete" /\ last.status = "True")
        => EnabledAndApproved(auth_methods, last.user) # {}

\* C2 as amended: AuthMethodService.delete does not look at the floor. Called
\* with the id of a stored auth method it removes exactly that row and
\* returns True, whatever its owner has left; called with an unknown id it
\* returns False and removes nothing.
C2_ServiceDeleteUnconditional ==
    [][\A i \in AuthIds :
         (last'.op = "delete" /\ last'.id = i)
         => IF i \in DOMAIN auth_methods
            THEN auth_methods' = Remove(auth_methods, i) /\ last'.status = "True"
            ELSE auth_methods' = auth_methods /\ last'.status = "False"]_vars

\* the service has removed the owner's last enabled-and-approved auth method
W_C2 ==
    /\ last.op = "delete" /\ last.status = "True"
    /\ last.user \in DOMAIN users
    /\ EnabledAndApproved(auth_methods, last.user) = {}

\* C3: the floor check rejects a delete_my_auth_method request (400) only if
\* the requester would keep no enabled-and-approved auth method after the
\* removal; a target that is itself disabled or unapproved is not rejected
\* while another auth method of its owner is enabled and approved.
C3_FloorCountsWhatRemains ==
    (last.op = "delete_my_auth_method" /\ last.status = "400")
        => EnabledAndApproved(Remove(auth_methods, last.id), last.user) = {}

\* C4: two delete_my_auth_method requests of one user that both saw two
\* enabled-and-approved auth methods and aimed at different ones do not both
\* succeed in removing theirs: an enabled-and-approved one remains.
C4_ConcurrentDeletesKeepFloor ==
    \A p \in Procs, q \in Procs :
        (/\ p # q
         /\ dreq[p].pc = "done" /\ dreq[q].pc = "done"
         /\ dreq[p].status = "200" /\ dreq[q].status = "200"
         /\ dreq[p].user = dreq[q].user /\ dreq[p].id # dreq[q].id
         /\ dreq[p].remaining_count = 2 /\ dreq[q].remaining_count = 2)
        => EnabledAndApproved(auth_methods, dreq[p].user) # {}

\* C5: with token and rotation requests executed one at a time, every
\* algorithm has at most one key row with is_active = true, and exactly one
\* once a token was issued or a rotation performed for it.
C5_OneActiveKey ==
    \A a \in Algorithms :
        /\ Cardinality(ActiveRows(a)) <= 1
        /\ key_hist[a].first # "none" => Cardinality(ActiveRows(a)) = 1

\* an algorithm with a first issuance and two rotations behind it
W_C5 ==
    \E a \in Algorithms :
        /\ key_hist[a].first = "issue" /\ key_hist[a].rotations = 2
        /\ Cardinality(RowsOf(a)) = 3 /\ Cardinality(ActiveRows(a)) = 1

\* C6: with two token / rotation requests in flight, no reachable state has
\* two active keys of one algorithm.
C6_NeverTwoActiveKeys ==
    \A a \in Algorithms : \A k1 \in ActiveRows(a), k2 \in ActiveRows(a) : k1 = k2

\* C7: a rotate_keys call deletes no key row, leaves every row but the active
\* key of the algorithm untouched, marks that key inactive with its rotation
\* time recorded, and adds exactly one new active key with an unused key id,
\* which it returns; after a first issuance and n rotations the algorithm has
\* n + 1 key rows.
C7_RotationAddsOneKey ==
    /\ [][rotate_keys =>
            /\ DOMAIN keys \subseteq DOMAIN keys'
            /\ \A k \in DOMAIN keys :
                 IF k \in ActiveRows(jwt_algorithm)
                 THEN keys'[k] = [keys[k] EXCEPT !.is_active = FALSE, !.rotated_at = now]
                      /\ keys'[k].rotated_at # None
                 ELSE keys'[k] = keys[k]
            /\ \E n \in DOMAIN keys' \ DOMAIN keys :
                 /\ DOMAIN keys' = DOMAIN keys \cup {n}
                 /\ keys'[n].is_active /\ keys'[n].algorithm = jwt_algorithm
                 /\ jwt_last'.key_id = n]_vars
    /\ [](\A a \in Algorithms :
            key_hist[a].first = "issue"
                => Cardinality(RowsOf(a)) = key_hist[a].rotations + 1)

\* the second rotation after a first issuance has just returned
W_C7 ==
    /\ jwt_last.op = "rotate_keys"
    /\ key_hist[jwt_algorithm].first = "issue" /\ key_hist[jwt_algorithm].rotations = 2
    /\ Cardinality(RowsOf(jwt_algorithm)) = 3
    /\ jwt_last.key_id \in ActiveRows(jwt_algorithm)

\* C8: a token whose "exp" has not passed verifies under the algorithm it
\* was issued with, whatever rotations came after it was issued and whether
\* the key named in its header is active or not.
C8_TokenSurvivesRotation ==
    (held # NoIssued /\ ~Expired(held.token, now))
        => verify_token(keys, held.token.alg, held.token, "", now) = PayloadOf(held.token)

\* a token verified after its key was rotated out twice
W_C8 ==
    /\ jwt_last.op = "validate_token" /\ jwt_last.payload.valid
    /\ ~keys[held.token.kid].is_active
    /\ key_hist[jwt_algorithm].rotations = 2

\* C9: validating, before its "exp" has passed, the token create_access_token(p)
\* returned with expected kind access yields a payload whose subject is
\* str(p) and whose kind is access.
C9_AccessRoundTrip ==
    (/\ jwt_last.op = "validate_token" /\ jwt_last.token_type = "access"
     /\ held.kind = "access" /\ ~Expired(held.token, now))
        => /\ jwt_last.payload.valid
           /\ jwt_last.payload.sub = <<"uuid", held.user_id>>
           /\ jwt_last.payload.type = "access"

\* an access token of the second user validated as access
W_C9 ==
    /\ jwt_last.op = "validate_token" /\ jwt_last.token_type = "access"
    /\ held.kind = "access" /\ held.user_id = 2
    /\ jwt_last.payload.valid /\ jwt_last.payload.sub = <<"uuid", 2>>

\* C10 as claimed: validate_token(token, expectedKind) returns None whenever
\* the kind in the token differs from expectedKind.
C10_KindMismatchRejected ==
    (jwt_last.op = "validate_token" /\ held.token.type # jwt_last.token_type)
        => jwt_last.payload = NoPayload

\* C10 as amended: validate_token(token, expectedKind) returns None whenever
\* expectedKind is a non-empty string that differs from the kind in the
\* token (access as refresh, refresh as access, either as anything else).
C10_GivenKindMismatchRejected ==
    (/\ jwt_last.op = "validate_token"
     /\ jwt_last.token_type # ""
     /\ held.token.type # jwt_last.token_type)
        => jwt_last.payload = NoPayload

\* an unexpired, correctly signed access token refused as refresh
W_C10 ==
    /\ jwt_last.op = "validate_token" /\ jwt_last.token_type = "refresh"
    /\ held.token.type = "access" /\ ~Expired(held.token, now)
    /\ jwt_last.payload = NoPayload
    /\ verify_token(keys, jwt_algorithm, held.token, "access", now).valid

\* one of the failure modes of token verification holds for the token at time t
Fails(token, token_type, t) ==
    \/ token.alg = ""                                        \* malformed
    \/ token.kid = None                                      \* no key id
    \/ token.kid \notin DOMAIN keys                          \* unknown key id
    \/ /\ token.kid \in DOMAIN keys                          \* key of another algorithm
       /\ keys[token.kid].algorithm # jwt_algorithm
    \/ Expired(token, t)                                     \* expired
    \/ /\ token.kid \in DOMAIN keys                          \* signature mismatch
       /\ token.sig # Sign(keys[token.kid].private_key_encrypted, token.alg, token.kid,
                           token.sub, token.exp, token.iat, token.type)
    \/ token_type # "" /\ token.type # token_type            \* kind mismatch

\* C11: verify_token never raises and never changes the key store: for a
\* malformed token, a missing or unknown key id, a key id of a key of another
\* algorithm, an expired token, a signature mismatch and a mismatch with the
\* expected kind the answer is the same None, and no key row is touched.
C11_FailuresCollapseToNone ==
    /\ [](jwt_last.op = "verify_token" /\ Fails(jwt_last.presented, jwt_last.token_type, now)
            => jwt_last.payload = NoPayload)
    /\ [][jwt_last'.op = "verify_token" => keys' = keys /\ next_key_id' = next_key_id]_vars

\* an unexpired token of the expected kind, re-signed with a key that is not
\* the server's, was refused
W_C11 ==
    /\ jwt_last.op = "verify_token" /\ jwt_last.payload = NoPayload
    /\ jwt_last.presented.kid \in DOMAIN keys /\ keys[jwt_last.presented.kid].algorithm = jwt_algorithm
    /\ jwt_last.presented.alg = jwt_algorithm
    /\ jwt_last.presented.sig # held.token.sig
    /\ jwt_last.presented.type = jwt_last.token_type
    /\ ~Expired(jwt_last.presented, now)

\* C12: a token made by create_access_token with an explicit expires_delta
\* that is zero or negative is refused by validate_token at every time from
\* its issuance on, whatever kind is expected.
C12_NonPositiveTtlRejected ==
    [][\A u \in UserIds, d \in Deltas :
         (d # <<>> /\ d[1] <= 0 /\ create_access_token(u, d))
         => \A t \in now..(StartTime + MaxTime), tt \in TokenTypes :
               validate_token(keys', jwt_algorithm, held'.token, tt, t) = NoPayload]_vars

\* an access token that expires before it was issued has been validated
W_C12 ==
    /\ jwt_last.op = "validate_token" /\ jwt_last.token_type = "access"
    /\ held.kind = "access" /\ held.token.exp < held.token.iat
    /\ held.token.kid \in ActiveRows(jwt_algorithm)
    /\ jwt_last.payload = NoPayload

\* C13: the token-refresh request succeeds exactly for unexpired tokens of
\* kind refresh; when it succeeds it returns a new access token that
\* validates as access with the subject of the presented token, and a new
\* refresh token; an access token or an invalid token is rejected and
\* nothing is issued.
C13_RefreshTakesRefreshTokens ==
    [][refresh_jwt_token =>
         /\ jwt_last'.status = "200" <=> (held.kind = "refresh" /\ ~Expired(held.token, now))
         /\ jwt_last'.status = "200" =>
               /\ validate_token(keys', jwt_algorithm, jwt_last'.access_token, "access", now)
                     = PayloadOf(jwt_last'.access_token)
               /\ jwt_last'.access_token.sub = str(held.user_id)
               /\ jwt_last'.refresh_token.type = "refresh"
         /\ jwt_last'.status # "200" => keys' = keys /\ jwt_last'.access_token = NoIssued.token]_vars

\* C19: with update_passkey_sign_count calls executed one at a time, the
\* counter stored for a passkey after a call reporting r is the maximum of
\* the counter stored before and r, and no step lowers a stored counter.
C19_SignCountIsMax ==
    /\ [][\A i \in AuthIds, r \in 0..MaxSignCount :
            (update_passkey_sign_count(i, r) /\ get_passkey(auth_methods, i))
            => /\ auth_methods'[i].sign_count >= auth_methods[i].sign_count
               /\ auth_methods'[i].sign_count >= r
               /\ auth_methods'[i].sign_count \in {auth_methods[i].sign_count, r}]_vars
    /\ [][\A i \in DOMAIN auth_methods \cap DOMAIN auth_methods' :
            auth_methods'[i].sign_count >= auth_methods[i].sign_count]_vars

\* the counter of one passkey was raised to the largest value, that of another to 1
W_C19 ==
    /\ last.op = "update_passkey_sign_count" /\ last.status = "obj"
    /\ auth_methods[last.id].sign_count = MaxSignCount
    /\ \E i \in DOMAIN auth_methods : i # last.id /\ auth_methods[i].sign_count = 1

\* C20: when two update_passkey_sign_count calls for one passkey have both
\* committed, the stored counter is at least each of the two reported values
\* (it is the maximum of the initial counter and both), and no step of either
\* call lowers the stored counter.
C20_ConcurrentSignCountIsMax ==
    /\ [](\A p \in Procs, q \in Procs :
            (/\ p # q /\ sreq[p].pc = "done" /\ sreq[q].pc = "done"
             /\ sreq[p].id # None /\ sreq[p].id = sreq[q].id)
            => /\ auth_methods[sreq[p].id].sign_count >= sreq[p].new_sign_count
               /\ auth_methods[sreq[p].id].sign_count >= sreq[q].new_sign_count)
    /\ [][\A i \in DOMAIN auth_methods \cap DOMAIN auth_methods' :
            auth_methods'[i].sign_count >= auth_methods[i].sign_count]_vars

\* the credential response of an authenticator that answers the pending
\* ceremony record with credential id, counter n
ResponseTo(record, id, n) ==
    [id |-> id, challenge |-> record.challenge, rp_id |-> record.rp_id,
     origin |-> record.origin, sign_count |-> n, genuine |-> TRUE]

\* the passkey with that credential id can be used to log in
Usable(id) ==
    \E i \in DOMAIN auth_methods :
        /\ auth_methods[i].type = "passkey" /\ auth_methods[i].credential_id = id
        /\ auth_methods[i].public_key = id
        /\ auth_methods[i].enabled /\ auth_methods[i].approved
        /\ auth_methods[i].user_id \in DOMAIN users
        /\ users[auth_methods[i].user_id].enabled

\* the counter n advances on the one stored for that credential id
Advances(id, n) ==
    \A i \in DOMAIN auth_methods :
        auth_methods[i].credential_id = id
            => (n > auth_methods[i].sign_count \/ (n = 0 /\ auth_methods[i].sign_count = 0))

\* C14: in one client session, requests one at a time: no challenge is
\* finished successfully twice, a finish call without a pending ceremony
\* record of its kind (none begun, or the last one already finished) fails,
\* and a finish call carrying a valid credential response to the pending
\* record (registration: a credential id not stored yet; authentication: a
\* usable passkey whose counter advances) succeeds and removes the record.
C14_CeremonySingleUse ==
    /\ [](\A k \in {"reg", "auth"}, c \in Challenges : consumed[k][c] <= 1)
    /\ [][(web_last'.op = "finish_webauthn_registration" /\ web_last'.status = "200")
            => session'.reg = NoCeremony]_vars
    /\ [][(web_last'.op = "finish_webauthn_authentication" /\ web_last'.status = "200")
            => session'.auth = NoCeremony]_vars
    /\ [][(web_last'.op = "finish_webauthn_registration" /\ session.reg = NoCeremony)
            => web_last'.status = "400 session"]_vars
    /\ [][(web_last'.op = "finish_webauthn_authentication" /\ session.auth = NoCeremony)
            => web_last'.status = "400 session"]_vars
    /\ [][\A id \in CredentialIds, n \in 0..MaxSignCount :
            (/\ session.reg # NoCeremony
             /\ get_passkey_by_credential_id(auth_methods, id) = {}
             /\ finish_webauthn_registration(session.reg.rp_id, session.reg.origin,
                                             ResponseTo(session.reg, id, n)))
            => web_last'.status = "200" /\ session'.reg = NoCeremony]_vars
    /\ [][\A id \in CredentialIds, n \in 0..MaxSignCount :
            (/\ session.auth # NoCeremony
             /\ Usable(id) /\ Advances(id, n)
             /\ finish_webauthn_authentication(session.auth.rp_id, session.auth.origin,
                                               ResponseTo(session.auth, id, n)))
            => web_last'.status = "200" /\ session'.auth = NoCeremony]_vars

\* after a registration and a login were finished, one more finish call was
\* refused for want of a pending record
W_C14 ==
    /\ \E c \in Challenges : consumed["reg"][c] = 1
    /\ \E c \in Challenges : consumed["auth"][c] = 1
    /\ web_last.op = "finish_webauthn_authentication" /\ web_last.status = "400 session"

\* some configured relying party has that rp_id and lists that origin
Allowed(rp_id, origin) ==
    \E i \in DOMAIN AllowedRps :
        AllowedRps[i].rp_id = rp_id /\ origin \in AllowedRps[i].origins

ServiceOps == {"begin_registration", "finish_registration", "begin_authentication",
               "finish_authentication"}

InvalidRp == "Invalid RP/origin combination"

\* C16: each of the four WebAuthnService calls fails with the invalid
\* relying party error, with no challenge and no credential information,
\* exactly when no configured relying party has the given rp_id and lists the
\* given origin; an origin of another relying party does not do.
C16_InvalidRpRejected ==
    web_last.op \in ServiceOps
        => IF Allowed(web_last.asked[1], web_last.asked[2])
           THEN web_last.status # InvalidRp
           ELSE /\ web_last.status = InvalidRp
                /\ web_last.result.challenge = None
                /\ web_last.result.credential_id = None
                /\ web_last.result.public_key = None

\* finish_registration refused an rp_id paired with another relying party's origin
W_C16 ==
    /\ web_last.op = "finish_registration" /\ web_last.status = InvalidRp
    /\ web_last.asked = <<"example.com", "https://other.org">>

\* C17: the verifier is never invoked for an (rp_id, origin) pair that is not
\* on the allow-list: a finish call for such a pair ends before verification.
C17_RpCheckBeforeVerifier ==
    /\ web_last.result.verifier # <<>>
          => Allowed(web_last.result.verifier[1], web_last.result.verifier[2])
    /\ (web_last.op \in ServiceOps /\ ~Allowed(web_last.asked[1], web_last.asked[2]))
          => web_last.result.verifier = <<>>

\* the verifier was invoked for an allowed pair and refused the response
W_C17 ==
    /\ web_last.op = "finish_authentication"
    /\ web_last.status = "Authentication verification failed"
    /\ web_last.result.verifier = <<"example.com", "https://app.example.com">>

\* C18: with approval not required and no user stored, a begin-registration
\* request for an allowed pair returns a challenge and an empty exclude list
\* and stores no user and no auth method; the finish-registration request
\* with a valid response then stores exactly one user and exactly one passkey
\* of that user, enabled, approved and with the counter the verifier reported.
C18_FirstRegistration ==
    /\ [][(/\ web_last'.op = "begin_webauthn_registration" /\ web_last'.status = "200"
           /\ users = <<>>)
            => /\ web_last'.result.challenge \in Challenges
               /\ web_last'.exclude = {}
               /\ users' = users /\ auth_methods' = auth_methods]_vars
    /\ [][\A id \in CredentialIds, n \in 0..MaxSignCount :
            (/\ ~require_auth_method_approval
             /\ users = <<>> /\ auth_methods = <<>>
             /\ session.reg # NoCeremony
             /\ finish_webauthn_registration(session.reg.rp_id, session.reg.origin,
                                             ResponseTo(session.reg, id, n)))
            => /\ web_last'.status = "200"
               /\ Cardinality(DOMAIN users') = 1
               /\ Cardinality(DOMAIN auth_methods') = 1
               /\ \A i \in DOMAIN auth_methods' :
                    /\ auth_methods'[i].type = "passkey"
                    /\ auth_methods'[i].user_id \in DOMAIN users'
                    /\ auth_methods'[i].user_id = web_last'.user
                    /\ auth_methods'[i].credential_id = id
                    /\ auth_methods'[i].enabled /\ auth_methods'[i].approved
                    /\ auth_methods'[i].sign_count = n]_vars

\* the first registration, by an authenticator whose counter is not 0
W_C18 ==
    /\ ~require_auth_method_approval
    /\ web_last.op = "finish_webauthn_registration" /\ web_last.status = "200"
    /\ Cardinality(DOMAIN users) = 1 /\ Cardinality(DOMAIN auth_methods) = 1
    /\ \E i \in DOMAIN auth_methods :
         auth_methods[i].sign_count = 1 /\ auth_methods[i].enabled /\ auth_methods[i].approved

\* C15: of two finish requests in flight for the same pending challenge,
\* exactly one succeeds: no challenge is finished successfully twice,
\* whatever the order of the requests' read, verify, persist and clear steps.
C15_ExactlyOneFinishWins ==
    \A k \in {"reg", "auth"}, c \in Challenges : consumed[k][c] <= 1

\* C21 as stated: every approved auth method either does not require
\* approval or has both approved_by and approved_at set.
C21_ApprovedHasApprover ==
    \A i \in DOMAIN auth_methods :
        auth_methods[i].approved
            => \/ ~auth_methods[i].requires_approval
               \/ (auth_methods[i].approved_by # None /\ auth_methods[i].approved_at # None)

\* C21, amended: every approved auth method either does not require approval
\* or has approved_at set, and has approved_by set to the approver unless the
\* approver was deleted since; no auth method is approved by a stored user
\* without approved_at.
C21_ApprovedHasApprovalTime ==
    \A i \in DOMAIN auth_methods :
        /\ auth_methods[i].approved
              => (~auth_methods[i].requires_approval \/ auth_methods[i].approved_at # None)
        /\ (auth_methods[i].approved /\ auth_methods[i].requires_approval
               /\ auth_methods[i].approved_by = None)
              => foreign_keys /\ Cardinality(DOMAIN users) < next_user_id
        /\ auth_methods[i].approved_by # None
              => auth_methods[i].approved /\ auth_methods[i].approved_at # None

\* an auth method that required approval is approved, and its approver has
\* been deleted
W_C21 ==
    /\ last.op = "delete_user" /\ last.status = "True"
    /\ \E i \in DOMAIN auth_methods :
         /\ auth_methods[i].requires_approval /\ auth_methods[i].approved
         /\ auth_methods[i].approved_at # None
         /\ auth_methods[i].approved_by \in {None, last.user}

\* the call stored one new row and touched no other
AddedOne ==
    /\ next_auth_id' = next_auth_id + 1
    /\ DOMAIN auth_methods' = DOMAIN auth_methods \cup {next_auth_id'}
    /\ \A i \in DOMAIN auth_methods : auth_methods'[i] = auth_methods[i]

\* the new row is in the state the claim gives it
CreatedAsClaimed(required) ==
    /\ auth_methods'[next_auth_id'].enabled = ~required
    /\ auth_methods'[next_auth_id'].approved = ~required

\* the new row is in the state the code gives it
CreatedEnabled(required) ==
    /\ auth_methods'[next_auth_id'].enabled
    /\ auth_methods'[next_auth_id'].requires_approval = required
    /\ auth_methods'[next_auth_id'].approved = ~required
    /\ auth_methods'[next_auth_id'].approved_by = None
    /\ auth_methods'[next_auth_id'].approved_at = None

\* what the policy and the override of the call ask for
Required(override) ==
    IF override = <<>> THEN require_auth_method_approval ELSE override[1]

\* C22 as stated: every add call stores one row, disabled and unapproved
\* when the policy or the override requires approval, enabled and approved
\* otherwise.
C22_PendingCreatedDisabled ==
    [][\A u \in UserIds :
         /\ \A o \in {<<>>, <<TRUE>>, <<FALSE>>} :
              add_passkey(u, o) => (AddedOne /\ CreatedAsClaimed(Required(o)))
         /\ add_password(u) => (AddedOne /\ CreatedAsClaimed(require_auth_method_approval))
         /\ add_token(u) => (AddedOne /\ CreatedAsClaimed(require_auth_method_approval))]_vars

\* C22, amended: every add call stores one row in one commit, always
\* enabled; a passkey or password is unapproved with requires_approval set
\* when the policy or the override requires approval and approved otherwise;
\* a token is approved and does not require approval under either policy.
C22_PendingCreatedEnabled ==
    [][\A u \in UserIds :
         /\ \A o \in {<<>>, <<TRUE>>, <<FALSE>>} :
              add_passkey(u, o) => (AddedOne /\ CreatedEnabled(Required(o)))
         /\ add_password(u) => (AddedOne /\ CreatedEnabled(require_auth_method_approval))
         /\ add_token(u) => (AddedOne /\ CreatedEnabled(FALSE))]_vars

\* under the approval policy a password was added: it is enabled and pending
W_C22 ==
    /\ require_auth_method_approval
    /\ last.op = "add_password"
    /\ auth_methods[next_auth_id].type = "password"
    /\ auth_methods[next_auth_id].enabled
    /\ auth_methods[next_auth_id].requires_approval
    /\ ~auth_methods[next_auth_id].approved

\* every row but the one with that id is as it was, and no row came or went
OthersUnchanged(id) ==
    /\ DOMAIN auth_methods' = DOMAIN auth_methods
    /\ \A j \in DOMAIN auth_methods \ {id} : auth_methods'[j] = auth_methods[j]

\* C23: approve(id, approver, TRUE) sets approved, approved_by = approver and
\* approved_at; approve(id, approver, FALSE) clears all three; neither
\* changes enabled or requires_approval of the target or any other row; for
\* an id that matches no row the call reports not-found and changes nothing.
C23_ApproveFrame ==
    [][\A i \in AuthIds, u \in UserIds, b \in BOOLEAN :
         approve(i, u, b) =>
           IF i \in DOMAIN auth_methods
           THEN /\ last'.status = "200"
                /\ auth_methods'[i].approved = b
                /\ auth_methods'[i].approved_by = (IF b THEN u ELSE None)
                /\ (auth_methods'[i].approved_at # None) = b
                /\ auth_methods'[i].enabled = auth_methods[i].enabled
                /\ auth_methods'[i].requires_approval = auth_methods[i].requires_approval
                /\ auth_methods'[i].user_id = auth_methods[i].user_id
                /\ OthersUnchanged(i)
                /\ users' = users
           ELSE /\ last'.status = "404"
                /\ auth_methods' = auth_methods /\ users' = users]_vars

\* one auth method was approved by an admin and another one was rejected
W_C23 ==
    /\ last.op = "approve" /\ last.status = "200"
    /\ \E i \in DOMAIN auth_methods :
         /\ auth_methods[i].approved /\ auth_methods[i].requires_approval
         /\ auth_methods[i].approved_by \in DOMAIN users
         /\ auth_methods[i].approved_at # None
    /\ \E j \in DOMAIN auth_methods :
         /\ ~auth_methods[j].approved /\ ~auth_methods[j].requires_approval
         /\ auth_methods[j].approved_by = None /\ auth_methods[j].approved_at = None

\* C24: toggle_enabled(c, e) sets the flag of c to e and nothing else, so
\* after it the flag is e; called for a c whose flag is e already, as it is
\* right after a first call, it answers without error and leaves every
\* table as it found it.
C24_ToggleIdempotent ==
    [][\A a \in UserIds, i \in AuthIds, e \in BOOLEAN :
         (toggle_enabled(a, i, e) /\ i \in DOMAIN auth_methods) =>
           /\ last'.status = "200"
           /\ auth_methods' = [auth_methods EXCEPT ![i].enabled = e]
           /\ users' = users
           /\ auth_methods[i].enabled = e
                 => (auth_methods' = auth_methods /\ ~last'.changed)]_vars

\* the only auth method stored had been disabled and was disabled once more
W_C24 ==
    /\ last.op = "toggle_enabled" /\ last.status = "200" /\ ~last.changed
    /\ Cardinality(DOMAIN auth_methods) = 1
    /\ \A i \in DOMAIN auth_methods : ~auth_methods[i].enabled

\* C25: toggle_enabled(c, FALSE) succeeds also when c is the last enabled and
\* approved auth method of its owner: the floor is not checked on disabling.
C25_DisableIgnoresFloor ==
    [][\A a \in UserIds, i \in AuthIds :
         (toggle_enabled(a, i, FALSE) /\ i \in DOMAIN auth_methods) =>
           /\ last'.status = "200"
           /\ ~auth_methods'[i].enabled]_vars

\* with no delete ever made, a user who owns two auth methods has none
\* enabled and approved left
W_C25 ==
    /\ last.op = "toggle_enabled" /\ last.status = "200" /\ last.changed
    /\ \E u \in DOMAIN users :
         /\ Cardinality({i \in DOMAIN auth_methods : auth_methods[i].user_id = u}) = 2
         /\ count_user_auth_methods(auth_methods, u) = 0

\* the ids in ascending order; ids are handed out in the order of created_at
RECURSIVE Ascending(_)
Ascending(ids) ==
    IF ids = {} THEN <<>>
    ELSE LET oldest == CHOOSE i \in ids : \A j \in ids : i <= j
         IN <<oldest>> \o Ascending(ids \ {oldest})

\* the limit oldest of the ids, oldest first
OldestFirst(ids, limit) ==
    SubSeq(Ascending(ids), 1, IF limit < Cardinality(ids) THEN limit ELSE Cardinality(ids))

\* C26: get_pending_approvals(limit) returns only auth methods that require
\* approval and are not approved, at most limit of them, oldest first: when
\* more than limit are pending, the limit oldest.
C26_PendingOldestFirst ==
    [][\A limit \in 0..MaxAuthMethods :
         get_pending_approvals(limit)
            => last'.rows = OldestFirst(PendingIds(auth_methods), limit)]_vars

\* ------------------------------------------------ passkeys and their ids
NextPasskeys ==
    \/ \E a \in BOOLEAN : CreateUser(TRUE, a)
    \/ \E u \in UserIds, c \in CredentialIds, r \in {"example.com", "other.org"} :
          add_passkey_with(u, c, c, r, <<>>)
    \/ \E i \in AuthIds : delete(i)
    \/ \E u \in UserIds : delete_user(u)

SpecPasskeys == InitStore /\ [][NextPasskeys]_vars

\* the passkeys stored under a credential id
StoredAs(credential_id) ==
    get_passkey_by_credential_id(auth_methods, credential_id)

\* C27: no two stored passkeys share a credential id, whoever owns them; an
\* add_passkey whose credential id is already stored ends in the database's
\* conflict error (IntegrityError) and leaves the stored credentials as they
\* were
C27_CredentialIdUnique ==
    /\ [](\A c \in CredentialIds : Cardinality(StoredAs(c)) <= 1)
    /\ [][\A u \in UserIds, c \in CredentialIds, r \in {"example.com", "other.org"} :
            (add_passkey_with(u, c, c, r, <<>>) /\ StoredAs(c) # {})
               => /\ last'.status = "IntegrityError"
                  /\ auth_methods' = auth_methods]_vars

\* an add_passkey was refused while another user's passkey holds the id
W_C27 ==
    /\ last.op = "add_passkey"
    /\ last.status = "IntegrityError"
    /\ \E c \in CredentialIds : StoredAs(c) # {}
    /\ Cardinality(DOMAIN users) >= 2

\* ------------------------------------- POST /me/auth-methods/password
\* One database round trip at a time (users.py:104-137). Each request has its
\* own Session, the endpoint is a plain def run on a worker thread, and no
\* constraint of auth_methods forbids a second password row, so the steps of
\* two requests interleave freely.

\* the password rows of a user among get_user_auth_methods(user_id)
PasswordsOf(table, user_id) ==
    {i \in DOMAIN table : table[i].user_id = user_id /\ table[i].type = "password"}

\* users.py:106-119: the requester is authenticated and the password long enough
PasswordBegin(p, current_user) ==
    /\ dreq[p].pc = "idle"
    /\ require_user(current_user)
    /\ next_auth_id + Cardinality({q \in Procs : dreq[q].pc # "idle"}) < MaxAuthMethods
    /\ dreq' = [dreq EXCEPT ![p] = [IdleReq EXCEPT !.pc = "existing_methods",
                                                   !.user = current_user]]
    /\ UNCHANGED <<users, next_user_id, auth_methods, next_auth_id,
                   require_auth_method_approval, foreign_keys, last, now, jwtState, webState>>

\* users.py:121-128: read the user's auth methods, 400 if one is a password
PasswordCheck(p) ==
    /\ dreq[p].pc = "existing_methods"
    /\ dreq' = [dreq EXCEPT ![p] =
          IF PasswordsOf(auth_methods, dreq[p].user) # {}
          THEN [@ EXCEPT !.pc = "answer", !.status = "400"]
          ELSE [@ EXCEPT !.pc = "add_password"]]
    /\ UNCHANGED <<users, next_user_id, auth_methods, next_auth_id,
                   require_auth_method_approval, foreign_keys, last, now, jwtState, webState>>

\* users.py:130-135: AuthMethodService.add_password, which adds and commits
PasswordAdd(p) ==
    /\ dreq[p].pc = "add_password"
    /\ IF dreq[p].user \notin DOMAIN users /\ foreign_keys
       THEN /\ dreq' = [dreq EXCEPT ![p] = [@ EXCEPT !.pc = "answer", !.status = "500"]]
            /\ UNCHANGED <<auth_methods, next_auth_id>>
       ELSE /\ next_auth_id' = next_auth_id + 1
            /\ auth_methods' = Insert(auth_methods, next_auth_id + 1,
                   AuthMethodRow(dreq[p].user, "password", TRUE,
                                 require_auth_method_approval,
                                 ~require_auth_method_approval))
            /\ dreq' = [dreq EXCEPT ![p] =
                   [@ EXCEPT !.pc = "answer", !.id = next_auth_id + 1, !.status = "200"]]
    /\ UNCHANGED <<users, next_user_id, require_auth_method_approval, foreign_keys, last, now, jwtState, webState>>

\* the response is sent; the worker is free for the next request
PasswordReturn(p) ==
    /\ dreq[p].pc = "answer"
    /\ dreq' = [dreq EXCEPT ![p] = IdleReq]
    /\ last' = Answer("add_password_auth_method", dreq[p].user, dreq[p].id, dreq[p].status)
    /\ UNCHANGED <<users, next_user_id, auth_methods, next_auth_id,
                   require_auth_method_approval, foreign_keys, now, jwtState, webState>>

NextPasswordRace ==
    \/ \E a \in BOOLEAN : CreateUser(TRUE, a)
    \/ \E p \in Procs, u \in UserIds : PasswordBegin(p, u)
    \/ \E p \in Procs : PasswordCheck(p)
    \/ \E p \in Procs : PasswordAdd(p)
    \/ \E p \in Procs : PasswordReturn(p)
    \/ \E i \in AuthIds : delete(i)

SpecPasswordRace == InitCred /\ [][NextPasswordRace]_vars

\* C28: no user ever holds two password credentials, whatever the
\* interleaving of the add-password requests in flight
C28_AtMostOnePassword ==
    \A u \in UserIds : Cardinality(PasswordsOf(auth_methods, u)) <= 1

\* ------------------------------------------------------- JWTService.get_jwks
\* faulty variant of PublishedKeyIds: the is_active filter is missing
PublishedKeyIdsAnyStatus(table) ==
    {k \in DOMAIN table : /\ table[k].algorithm = "RS256"
                          /\ table[k].public_key # None}

\* jwt_service.py:292-296: the rows the query of get_jwks selects
PublishedKeyIds(table) ==
    {k \in DOMAIN table : /\ table[k].is_active
                          /\ table[k].algorithm = "RS256"
                          /\ table[k].public_key # None}

\* jwt_service.py:302-307: the dictionary appended for a key
JWK(key_id) ==
    [kty |-> "RSA", kid |-> key_id, use |-> "sig", alg |-> "RS256"]

\* JWTService.get_jwks(): [] for HS256, else one dictionary per selected
\* row, in the order the database hands the rows out
get_jwks ==
    /\ IF jwt_algorithm = "HS256"
       THEN jwt_last' = [JwtAnswer("get_jwks", None, "", NoPayload) EXCEPT !.jwks = <<>>]
       ELSE \E active_keys \in LimitAll(PublishedKeyIds(keys),
                                        Cardinality(PublishedKeyIds(keys))) :
              jwt_last' = [JwtAnswer("get_jwks", None, "", NoPayload) EXCEPT !.jwks =
                              [n \in DOMAIN active_keys |-> JWK(active_keys[n])]]
    /\ UNCHANGED <<credState, webState, now, jwt_algorithm, keys, next_key_id, held, key_hist, kreq>>

\* SpecJwks: the key set is asked for between token and rotation requests,
\* across restarts with either algorithm
NextJwks ==
    \/ \E a \in Algorithms : Restart(a)
    \/ \E u \in UserIds, d \in Deltas : create_access_token(u, d)
    \/ rotate_keys
    \/ get_jwks

SpecJwks == InitJwt /\ [][NextJwks]_vars

\* C29: get_jwks answers the empty list when the configured algorithm is
\* HS256; under RS256 the list holds exactly one descriptor for each active
\* RS256 key that has public key material, each descriptor carries the key id
\* and nothing but kty, kid, use and alg (so no private material), and no
\* inactive key is listed
C29_JwksActivePublicKeysOnly ==
    jwt_last.op = "get_jwks" =>
        LET jwks == jwt_last.jwks
        IN IF jwt_algorithm = "HS256" THEN jwks = <<>>
           ELSE /\ \A k \in DOMAIN keys :
                     Cardinality({n \in DOMAIN jwks : jwks[n].kid = k})
                        = IF /\ keys[k].is_active
                             /\ keys[k].algorithm = "RS256"
                             /\ keys[k].public_key # None
                          THEN 1 ELSE 0
                /\ \A n \in DOMAIN jwks :
                     /\ jwks[n].kid \in DOMAIN keys
                     /\ DOMAIN jwks[n] = {"kty", "kid", "use", "alg"}
                     /\ jwks[n].kty = "RSA" /\ jwks[n].use = "sig"
                     /\ jwks[n].alg = "RS256"

\* the key set was asked for under RS256 with a rotated-out RS256 key and an
\* HS256 key in the table, and one key was listed
W_C29 ==
    /\ jwt_last.op = "get_jwks"
    /\ jwt_algorithm = "RS256"
    /\ Len(jwt_last.jwks) = 1
    /\ \E k \in DOMAIN keys : keys[k].algorithm = "RS256" /\ ~keys[k].is_active
    /\ \E k \in DOMAIN keys : keys[k].algorithm = "HS256" /\ keys[k].is_active

\* ------------------------------------------- credentials and their owners
\* C30: in every reachable state the owner of each stored credential is a
\* stored user: no add, delete or user deletion leaves a credential whose
\* user_id names no user
C30_OwnerExists ==
    \A i \in DOMAIN auth_methods : auth_methods[i].user_id \in DOMAIN users

\* ------------------------------------------- whose credential is deleted
\* SpecOwner: users add tokens and ask for the deletion of any auth method
NextOwner ==
    \/ \E a \in BOOLEAN : CreateUser(TRUE, a)
    \/ \E u \in UserIds : add_token(u)
    \/ \E u \in UserIds, i \in AuthIds : delete_my_auth_method(u, i)

SpecOwner == InitDefault /\ [][NextOwner]_vars

\* C31: delete_my_auth_method removes an auth method only if the requester
\* owns it; asked for an auth method of another user it answers 404 and
\* leaves every auth method of that user (indeed every row) as it was
C31_DeleteOnlyOwn ==
    [][\A u \in UserIds, i \in AuthIds :
         delete_my_auth_method(u, i)
            => /\ auth_methods' # auth_methods
                    => /\ get_by_id(auth_methods, i)
                       /\ auth_methods[i].user_id = u
                       /\ auth_methods' = Remove(auth_methods, i)
               /\ (get_by_id(auth_methods, i) /\ auth_methods[i].user_id # u)
                    => /\ last'.status = "404"
                       /\ auth_methods' = auth_methods]_vars

\* a user asked for the deletion of another user's auth method and got 404,
\* the auth method still being stored
W_C31 ==
    /\ last.op = "delete_my_auth_method" /\ last.status = "404"
    /\ get_by_id(auth_methods, last.id)
    /\ auth_methods[last.id].user_id # last.user

\* ------------------------------------- finish requests and the session
\* the credential responses of an authenticator whose counter stays at 0
\* (the counter plays no part in what a finish request is checked against)
FinishResponses ==
    {c \in CredentialResponses(CeremonyRpIds, CeremonyOrigins) : c.sign_count = 0}

\* SpecFinish: the three ceremonies of one client session, every finish
\* request carrying any rp_id, origin and credential response
NextFinish ==
    \/ \E r \in CeremonyRpIds, o \in CeremonyOrigins : begin_webauthn_registration(r, o)
    \/ \E r \in CeremonyRpIds, o \in CeremonyOrigins : begin_webauthn_authentication(r, o)
    \/ \E r \in CeremonyRpIds, o \in CeremonyOrigins : begin_add_passkey(r, o)
    \/ \E r \in CeremonyRpIds, o \in CeremonyOrigins,
          credential \in FinishResponses :
          finish_webauthn_registration(r, o, credential)
    \/ \E r \in CeremonyRpIds, o \in CeremonyOrigins,
          credential \in FinishResponses :
          finish_webauthn_authentication(r, o, credential)
    \/ \E r \in CeremonyRpIds, o \in CeremonyOrigins,
          credential \in FinishResponses :
          finish_add_passkey(r, o, credential)

SpecFinish == InitDefault /\ [][NextFinish]_vars

\* what a finish request with rp_id r, origin o and the given credential
\* response owes to the record the begin call left in the session
BoundToSession(r, o, credential, record) ==
    /\ (r # record.rp_id \/ o # record.origin)
          => /\ web_last'.status # "200"
             /\ web_last'.result.verifier = <<>>
             /\ UNCHANGED <<users, auth_methods, session>>
    /\ web_last'.result.verifier # <<>>
          => web_last'.result.verifier = <<record.rp_id, record.origin>>
    /\ web_last'.status = "200"
          => /\ credential.challenge = record.challenge
             /\ credential.rp_id = record.rp_id
             /\ credential.origin = record.origin

\* C32: a finish request (registration, authentication, add-passkey) whose
\* rp_id or origin differs from what the begin call stored in the session is
\* refused without the verifier being called; the verifier is only ever
\* called with the session's rp_id and origin, and a request succeeds only
\* on a response to the session's challenge, rp_id and origin
C32_FinishBoundToSession ==
    /\ [][web_last'.op = "finish_webauthn_registration" =>
            \A r \in CeremonyRpIds, o \in CeremonyOrigins,
               credential \in FinishResponses :
               finish_webauthn_registration(r, o, credential)
                  => BoundToSession(r, o, credential, session.reg)]_vars
    /\ [][web_last'.op = "finish_webauthn_authentication" =>
            \A r \in CeremonyRpIds, o \in CeremonyOrigins,
               credential \in FinishResponses :
               finish_webauthn_authentication(r, o, credential)
                  => BoundToSession(r, o, credential, session.auth)]_vars
    /\ [][web_last'.op = "finish_add_passkey" =>
            \A r \in CeremonyRpIds, o \in CeremonyOrigins,
               credential \in FinishResponses :
               finish_add_passkey(r, o, credential)
                  => BoundToSession(r, o, credential, session.add)]_vars

\* an add-passkey finish was refused for its rp_id / origin while the
\* session holds the record of a begin
W_C32 ==
    /\ web_last.op = "finish_add_passkey"
    /\ web_last.status = "400 mismatch"
    /\ session.add # NoCeremony

\* ----------------------------------------------- keys made by issuance
\* the keys of the configured algorithm that an issuance can sign with
UsableKeyIds ==
    {k \in DOMAIN keys : /\ keys[k].is_active
                         /\ keys[k].algorithm = jwt_algorithm
                         /\ (keys[k].expires_at = None \/ keys[k].expires_at > now)}

\* C33: create_access_token / create_refresh_token, one at a time, insert
\* a key only when the algorithm has no active, unexpired key, and then
\* exactly one, active, leaving the other rows alone; otherwise they sign
\* with the one usable key and leave every key row unchanged
C33_IssuanceCreatesKeyOnce ==
    [][jwt_last'.op \in {"create_access_token", "create_refresh_token"} =>
         IF UsableKeyIds # {}
         THEN /\ keys' = keys
              /\ UsableKeyIds = {jwt_last'.key_id}
              /\ held'.token.kid = jwt_last'.key_id
         ELSE /\ \E k \in 1..MaxKeys :
                   /\ k \notin DOMAIN keys
                   /\ DOMAIN keys' = DOMAIN keys \cup {k}
                   /\ keys'[k].is_active /\ keys'[k].algorithm = jwt_algorithm
                   /\ jwt_last'.key_id = k /\ held'.token.kid = k
                   /\ {j \in DOMAIN keys' : keys'[j].is_active
                                            /\ keys'[j].algorithm = jwt_algorithm} = {k}
              /\ \A j \in DOMAIN keys : keys'[j] = keys[j]]_vars

\* a refresh token was issued to user 2 under the only key of the
\* algorithm, issuance having come first and no rotation since
W_C33 ==
    /\ jwt_last.op = "create_refresh_token"
    /\ key_hist[jwt_algorithm] = [first |-> "issue", rotations |-> 0]
    /\ Cardinality({k \in DOMAIN keys : keys[k].algorithm = jwt_algorithm}) = 1
    /\ held.token.kid = jwt_last.key_id
    /\ held.user_id = 2

\* ======================================================= hoa/api/deps.py
\* deps.get_current_user_from_token: the user the bearer token names, if
\* stored (NoIssued.token stands for a request without Authorization header)
get_current_user_from_token(token) ==
    LET user_id == get_user_id_from_token(keys, jwt_algorithm, token, now)
    IN IF user_id # None /\ user_id \in DOMAIN users THEN user_id ELSE None

\* faulty variant of get_current_user_bearer: the user a token names is
\* returned whether enabled or not
get_current_user_bearer_any(s, token) ==
    IF get_current_user(s) # None THEN get_current_user(s)
    ELSE get_current_user_from_token(token)

\* deps.get_current_user for a request with session s and bearer token:
\* the session's user if stored and enabled, else the token's user if
\* stored and enabled, else None
get_current_user_bearer(s, token) ==
    IF get_current_user(s) # None THEN get_current_user(s)
    ELSE LET user == get_current_user_from_token(token)
         IN IF user # None /\ users[user].enabled THEN user ELSE None

\* what the client puts into the Authorization header
Bearer(with_token) == IF with_token THEN held.token ELSE NoIssued.token

\* GET /api/auth/me, with or without the token the client holds
get_current_user_info(with_token) ==
    /\ web_last' = [WebAnswer("get_current_user_info", "200", ServiceResult(""))
                      EXCEPT !.user = get_current_user_bearer(session, Bearer(with_token))]
    /\ UNCHANGED <<credState, now, jwtState, session, next_challenge, wreq, sreq, consumed>>

\* POST /api/admin/users/{user_id}/toggle: UserService.toggle_enabled
toggle_user(admin, user_id, enabled) ==
    /\ require_admin(admin)
    /\ IF user_id \notin DOMAIN users
       THEN /\ last' = Answer("toggle_user", user_id, None, "404")
            /\ UNCHANGED users
       ELSE /\ users' = [users EXCEPT ![user_id].enabled = enabled]
            /\ last' = Answer("toggle_user", user_id, None, "200")
    /\ UNCHANGED <<auth_methods, next_user_id, next_auth_id, require_auth_method_approval, foreign_keys, dreq, now, jwtState, webState>>

\* SpecAuthn: a client registers (which logs it in), is handed tokens, and
\* asks who it is while an admin disables and enables users and time passes
NextAuthn ==
    \/ CreateUser(TRUE, TRUE)
    \/ begin_webauthn_registration(RaceRpId, RaceOrigin)
    \/ \E id \in CredentialIds :
          finish_webauthn_registration(RaceRpId, RaceOrigin, ResponseTo(session.reg, id, 0))
    \/ \E u \in UserIds, d \in {<<>>, <<1>>} : create_access_token(u, d)
    \/ \E a \in UserIds, u \in UserIds, b \in BOOLEAN : toggle_user(a, u, b)
    \/ \E b \in BOOLEAN : get_current_user_info(b)
    \/ Tick

SpecAuthn == InitDefault /\ [][NextAuthn]_vars

\* the users a request can claim to be: the one its session names and the
\* one named by an access token that still validates
Claimed(with_token) ==
    {session.user_id} \cup
    (IF with_token /\ validate_token(keys, jwt_algorithm, held.token, "access", now).valid
     THEN {held.user_id} ELSE {})

\* C34: get_current_user returns a user only if that user is stored and
\* enabled and is the one the request's session or valid bearer token names;
\* when each user the request names is disabled or gone, the request is
\* unauthenticated (None), and it is authenticated again once one of them
\* is enabled
C34_CurrentUserEnabled ==
    [][\A b \in BOOLEAN :
         get_current_user_info(b)
            => LET user == web_last'.user
                   live == {u \in Claimed(b) : u \in DOMAIN users /\ users[u].enabled}
               IN /\ user # None => user \in live
                  /\ user = None <=> live = {}]_vars

\* a request with the session and an unexpired token of a disabled user was
\* answered as unauthenticated
W_C34 ==
    /\ web_last.op = "get_current_user_info"
    /\ web_last.user = None
    /\ session.user_id \in DOMAIN users
    /\ ~users[session.user_id].enabled
    /\ held.user_id = session.user_id
    /\ validate_token(keys, jwt_algorithm, held.token, "access", now).valid

\* ------------------------------------------------- who may log in
\* the credential responses to the pending login of SpecLogin
LoginResponses ==
    {[ResponseTo(session.auth, id, n) EXCEPT !.genuine = g] :
        id \in CredentialIds, n \in 0..MaxSignCount, g \in BOOLEAN}

\* SpecLogin: a client registers a passkey, logs out and logs in with it
\* while an admin approves and toggles passkeys and toggles users, under
\* either approval policy
NextLogin ==
    \/ CreateUser(TRUE, TRUE)
    \/ begin_webauthn_registration(RaceRpId, RaceOrigin)
    \/ \E id \in CredentialIds :
          finish_webauthn_registration(RaceRpId, RaceOrigin, ResponseTo(session.reg, id, 0))
    \/ logout
    \/ begin_webauthn_authentication(RaceRpId, RaceOrigin)
    \/ \E credential \in LoginResponses :
          finish_webauthn_authentication(RaceRpId, RaceOrigin, credential)
    \/ \E a \in UserIds, i \in AuthIds, b \in BOOLEAN : approve(i, a, b)
    \/ \E a \in UserIds, i \in AuthIds, b \in BOOLEAN : toggle_enabled(a, i, b)
    \/ \E a \in UserIds, u \in UserIds, b \in BOOLEAN : toggle_user(a, u, b)

SpecLogin == InitCred /\ [][NextLogin]_vars

\* the stored passkeys a login with that response may succeed on: named by
\* its credential id, enabled and approved, owner stored and enabled, and
\* the verifier accepting the response for the pending login
LoginPasskeys(credential) ==
    {i \in DOMAIN auth_methods :
        /\ auth_methods[i].type = "passkey"
        /\ auth_methods[i].credential_id = credential.id
        /\ auth_methods[i].enabled /\ auth_methods[i].approved
        /\ auth_methods[i].user_id \in DOMAIN users
        /\ users[auth_methods[i].user_id].enabled
        /\ verify_authentication_response(credential, session.auth.challenge,
                                          session.auth.rp_id, session.auth.origin,
                                          auth_methods[i].public_key,
                                          auth_methods[i].sign_count)}

\* C35: finish_webauthn_authentication succeeds and sets the session's user
\* id only on a stored passkey with the presented credential id that is
\* enabled and approved, whose owner is stored and enabled, and whose
\* response the verifier accepts, and then to that owner; in every other
\* case the session's user id and every stored sign count stay as they were
C35_LoginOnlyOnUsablePasskey ==
    [][web_last'.op = "finish_webauthn_authentication" =>
       \A credential \in LoginResponses :
         finish_webauthn_authentication(RaceRpId, RaceOrigin, credential)
            => IF web_last'.status = "200"
               THEN \E i \in LoginPasskeys(credential) :
                       session'.user_id = auth_methods[i].user_id
               ELSE /\ session'.user_id = session.user_id
                    /\ \A i \in DOMAIN auth_methods :
                          auth_methods'[i].sign_count = auth_methods[i].sign_count]_vars

\* a login with a stored, enabled and approved passkey was refused because
\* its owner is disabled, the client staying logged out
W_C35 ==
    /\ web_last.op = "finish_webauthn_authentication"
    /\ web_last.status = "403"
    /\ session.user_id = None

\* ------------------------------------- registration and the login session
\* C36: when approval is required, a finish_webauthn_registration that has
\* just stored a passkey still waiting for approval does not leave the
\* session logged in as the passkey's owner
C36_NoSessionOnUnapprovedPasskey ==
    (/\ web_last.op = "finish_webauthn_registration"
     /\ web_last.status = "200"
     /\ require_auth_method_approval
     /\ get_by_id(auth_methods, web_last.auth_id)
     /\ ~auth_methods[web_last.auth_id].approved)
        => session.user_id # auth_methods[web_last.auth_id].user_id

\* C37: a finish_webauthn_registration that fails, at whatever step, has
\* created or changed no user and added no auth method
C37_RegistrationAllOrNothing ==
    [][(/\ web_last'.op = "finish_webauthn_registration"
        /\ web_last'.status # "200")
          => UNCHANGED <<users, auth_methods>>]_vars

\* ------------------------------------------ the pending ceremony record
FinishOps == {"finish_webauthn_registration", "finish_webauthn_authentication"}

\* C38: a finish call that fails leaves the session, and so the pending
\* ceremony record, as it was; a record disappears only in a successful
\* finish of its kind or a logout and changes otherwise only in a begin of
\* its kind; and right after a refusal for RP/origin mismatch, unknown,
\* disabled or unapproved credential, disabled owner or verifier rejection,
\* a finish with a valid response to the same challenge succeeds
C38_FailedFinishKeepsCeremony ==
    /\ [][(web_last'.op \in FinishOps /\ web_last'.status # "200")
             => session' = session]_vars
    /\ [][session'.reg # session.reg =>
             \/ web_last'.op = "logout"
             \/ web_last'.op = "finish_webauthn_registration"
                    /\ web_last'.status = "200" /\ session'.reg = NoCeremony
             \/ web_last'.op = "begin_webauthn_registration"
                    /\ web_last'.status = "200" /\ session'.reg # NoCeremony]_vars
    /\ [][session'.auth # session.auth =>
             \/ web_last'.op = "logout"
             \/ web_last'.op = "finish_webauthn_authentication"
                    /\ web_last'.status = "200" /\ session'.auth = NoCeremony
             \/ web_last'.op = "begin_webauthn_authentication"
                    /\ web_last'.status = "200" /\ session'.auth # NoCeremony]_vars
    /\ [][\A id \in CredentialIds, n \in 0..MaxSignCount :
            (/\ web_last.op = "finish_webauthn_registration"
             /\ web_last.status \in {"400 mismatch", "400 verification"}
             /\ get_passkey_by_credential_id(auth_methods, id) = {}
             /\ finish_webauthn_registration(session.reg.rp_id, session.reg.origin,
                                             ResponseTo(session.reg, id, n)))
            => web_last'.status = "200"]_vars
    /\ [][\A id \in CredentialIds, n \in 0..MaxSignCount :
            (/\ web_last.op = "finish_webauthn_authentication"
             /\ web_last.status \in {"400 mismatch", "401 credential", "403",
                                     "401 verification"}
             /\ Usable(id) /\ Advances(id, n)
             /\ finish_webauthn_authentication(session.auth.rp_id, session.auth.origin,
                                               ResponseTo(session.auth, id, n)))
            => web_last'.status = "200"]_vars

\* a login was refused by the verifier and its ceremony record is still
\* in the session
W_C38 ==
    /\ web_last.op = "finish_webauthn_authentication"
    /\ web_last.status = "401 verification"
    /\ session.auth # NoCeremony

\* --------------------------------------- one ceremony record per kind
BeginOps == {"begin_webauthn_registration", "begin_webauthn_authentication",
             "begin_add_passkey"}

\* the record a begin call of that name writes
Begun(s, op) ==
    IF op = "begin_webauthn_registration" THEN s.reg
    ELSE IF op = "begin_webauthn_authentication" THEN s.auth ELSE s.add

\* what a finish call with the given credential response owes to the one
\* record of its kind
LatestOnly(credential, record) ==
    /\ web_last'.status = "200" => credential.challenge = record.challenge
    /\ (record.challenge # None /\ credential.challenge # record.challenge)
          => web_last'.status # "200" /\ session' = session

\* C39: the session holds one record per kind: a successful begin puts a
\* challenge never issued before in the record of its kind, in place of
\* whatever was there, and leaves the rest of the session alone; a finish
\* call with a response to another challenge than the one in the record
\* (an overwritten one) fails and leaves the record, and a finish call
\* succeeds only with a response to the challenge in the record
C39_SecondBeginOverwrites ==
    /\ [][(web_last'.op \in BeginOps /\ web_last'.status = "200") =>
            /\ next_challenge' = next_challenge + 1
            /\ Begun(session', web_last'.op).challenge = next_challenge'
            /\ \E record \in {Begun(session', web_last'.op)} :
                 session' \in {[session EXCEPT !.reg = record],
                               [session EXCEPT !.auth = record],
                               [session EXCEPT !.add = record]}]_vars
    /\ [](\A record \in {session.reg, session.auth, session.add} :
            record.challenge # None => record.challenge \in 1..next_challenge)
    /\ [][web_last'.op = "finish_webauthn_registration" =>
            \A r \in CeremonyRpIds, o \in CeremonyOrigins,
               credential \in FinishResponses :
               finish_webauthn_registration(r, o, credential)
                  => LatestOnly(credential, session.reg)]_vars
    /\ [][web_last'.op = "finish_webauthn_authentication" =>
            \A r \in CeremonyRpIds, o \in CeremonyOrigins,
               credential \in FinishResponses :
               finish_webauthn_authentication(r, o, credential)
                  => LatestOnly(credential, session.auth)]_vars
    /\ [][web_last'.op = "finish_add_passkey" =>
            \A r \in CeremonyRpIds, o \in CeremonyOrigins,
               credential \in FinishResponses :
               finish_add_passkey(r, o, credential)
                  => LatestOnly(credential, session.add)]_vars

\* registration was begun twice and never finished successfully, the second
\* challenge is the one in the session, and a finish call has just been
\* refused by the verifier
W_C39 ==
    /\ next_challenge = 2
    /\ session.reg.challenge = 2
    /\ session.auth = NoCeremony /\ session.add = NoCeremony
    /\ \A k \in {"reg", "auth"}, c \in Challenges : consumed[k][c] = 0
    /\ next_user_id = 0
    /\ web_last.op = "finish_webauthn_registration"
    /\ web_last.status = "400 verification"

\* ======================================================== hoa/api/m2m.py
\* POST /api/m2m/token/create, with or without the token the client holds
\* in the Authorization header; expires_in_minutes is <<>> (None) or a
\* lifetime of at least 1. require_user answers 401 without a current user.
\* The client goes on with one of the two new tokens.
create_jwt_token(with_token, expires_in_minutes) ==
    /\ LET current_user == get_current_user_bearer(session, Bearer(with_token))
       IN IF current_user = None
          THEN /\ jwt_last' = [JwtAnswer("create_jwt_token", None, "", NoPayload)
                                  EXCEPT !.presented = Bearer(with_token),
                                         !.status = "401"]
               /\ UNCHANGED <<keys, next_key_id, held, key_hist>>
          ELSE \E key \in FirstActive(keys, jwt_algorithm) :
                 LET r == get_or_create_key(keys, jwt_algorithm, key, next_key_id + 1, now)
                     access_token ==
                         jwt_encode(str(current_user),
                                    ExpiresAt(now, expires_in_minutes, DefaultAccessTtl),
                                    now, "access", r.keys, r.key_id, jwt_algorithm)
                     refresh_token ==
                         jwt_encode(str(current_user),
                                    ExpiresAt(now, <<>>, DefaultRefreshTtl),
                                    now, "refresh", r.keys, r.key_id, jwt_algorithm)
                 IN /\ r.created => next_key_id < MaxKeys
                    /\ keys' = r.keys
                    /\ next_key_id' = IF r.created THEN next_key_id + 1 ELSE next_key_id
                    /\ \E kept \in {"access", "refresh"} :
                         held' = [token |-> IF kept = "access" THEN access_token
                                            ELSE refresh_token,
                                  user_id |-> current_user, kind |-> kept]
                    /\ jwt_last' = [JwtAnswer("create_jwt_token", r.key_id, "", NoPayload)
                                       EXCEPT !.presented = Bearer(with_token),
                                              !.status = "200",
                                              !.access_token = access_token,
                                              !.refresh_token = refresh_token]
                    /\ key_hist' = [key_hist EXCEPT ![jwt_algorithm] = Noted(@, "issue")]
    /\ UNCHANGED <<credState, webState, now, jwt_algorithm, kreq>>

\* SpecM2m: a client registers (which logs it in), asks for tokens and
\* refreshes them while an admin disables and enables users and time passes
NextM2m ==
    \/ CreateUser(TRUE, TRUE)
    \/ begin_webauthn_registration(RaceRpId, RaceOrigin)
    \/ \E id \in CredentialIds :
          finish_webauthn_registration(RaceRpId, RaceOrigin, ResponseTo(session.reg, id, 0))
    \/ \E b \in BOOLEAN, d \in {<<>>, <<1>>} : create_jwt_token(b, d)
    \/ refresh_jwt_token
    \/ \E a \in UserIds, u \in UserIds, b \in BOOLEAN : toggle_user(a, u, b)
    \/ Tick

SpecM2m == InitDefault /\ [][NextM2m]_vars

\* C40: a token/create or token/refresh request that hands out tokens hands
\* them out for a user that is stored and enabled at that moment
C40_TokensOnlyForEnabledUser ==
    [][((refresh_jwt_token \/ \E b \in BOOLEAN, d \in {<<>>, <<1>>} : create_jwt_token(b, d))
        /\ jwt_last'.status = "200")
          => /\ held'.user_id \in DOMAIN users
             /\ users[held'.user_id].enabled]_vars

====
